---- MODULE Spec2Model ----
(***************************************************************************)
(* Query-result caches of the two route files of the Insight back end:     *)
(*   src/unnamed/part_001                (papers routes,  "papers")        *)
(*   src/Back-End/routes/interactions.js (interaction routes,              *)
(*                                        "interactions")                  *)
(* Each file owns one module-level Map `queryCache` with the helper        *)
(* functions getCacheKey / getCachedQuery / setCachedQuery (and, in        *)
(* interactions.js, invalidateUserCache).  The async route handlers are    *)
(* modelled as request slots that interleave at their `await` points.      *)
(*                                                                         *)
(* A JavaScript string is a sequence of one-character strings, a Map is    *)
(* the sequence of its entries in insertion order, Date.now() is `now`.    *)
(*                                                                         *)
(* The search of GET /search/query (matching, relevance score, filters,    *)
(* count) is modelled by what its statements compute over the paper rows;  *)
(* its ordering and paging, the error paths of the handlers, the cache     *)
(* keys of the route families, the review submissions, the write handlers  *)
(* with their error paths and the user-scoped read routes have their own   *)
(* specifications (SpecRoutes, SpecPair, SpecReview, SpecWrite,            *)
(* SpecScoped).                                                            *)
(***************************************************************************)
EXTENDS Integers, Sequences, FiniteSets, TLC

VARIABLES inst, queryCache, now, store, invDone, req, look, puts, watch, P1, P2,
          hist, search, paging, reviews, pair, scoped

vars == <<inst, queryCache, now, store, invDone, req, look, puts, watch, P1, P2,
          hist, search, paging, reviews, pair, scoped>>

(***************************************************************************)
(* Bounds of the model.  The TTLs (60000 ms / 300000 ms) and capacities    *)
(* (100 / 200) of the source are scaled down to a few clock ticks and a    *)
(* few entries; the interactions cache keeps the longer TTL.               *)
(***************************************************************************)
TTL_PAPERS == 1

TTL_INTERACTIONS == 2

CAP_PAPERS == 2

CAP_INTERACTIONS == 2

MaxTime == 2

MaxWrites == 1

\* The requests served in a run of the handlers with their error paths.
MaxRequests == 2

Slots == {"A", "B"}

Instances == {"papers", "interactions"}

(***************************************************************************)
(* Strings.                                                                *)
(***************************************************************************)
Q == "\""

DigitChar(d) == <<"0", "1", "2", "3", "4", "5", "6", "7", "8", "9">>[d + 1]

RECURSIVE Digits(_)
\* String(n) of a non-negative integer: its decimal digits.
Digits(n) == IF n < 10 THEN <<DigitChar(n)>>
             ELSE Digits(n \div 10) \o <<DigitChar(n % 10)>>

\* String(n) of an integer.
NumberText(n) == IF n < 0 THEN <<"-">> \o Digits(-n) ELSE Digits(n)

\* String.prototype.includes
Includes(s, pat) ==
  \E i \in 1..(Len(s) - Len(pat) + 1) : SubSeq(s, i, i + Len(pat) - 1) = pat

S_userId == <<"u", "s", "e", "r", "I", "d">>

S_researcherId == <<"r", "e", "s", "e", "a", "r", "c", "h", "e", "r", "I", "d">>

S_paperId == <<"p", "a", "p", "e", "r", "I", "d">>

S_page == <<"p", "a", "g", "e">>

S_limit == <<"l", "i", "m", "i", "t">>

S_type == <<"t", "y", "p", "e">>

S_sortBy == <<"s", "o", "r", "t", "B", "y">>

S_topRated == <<"t", "o", "p", "R", "a", "t", "e", "d">>

S_fieldId == <<"f", "i", "e", "l", "d", "I", "d">>

S_search == <<"s", "e", "a", "r", "c", "h">>

S_dateFrom == <<"d", "a", "t", "e", "F", "r", "o", "m">>

S_dateTo == <<"d", "a", "t", "e", "T", "o">>

S_searches == <<"s", "e", "a", "r", "c", "h", "e", "s">>

S_downloadStats == <<"d", "o", "w", "n", "l", "o", "a", "d", "S", "t", "a", "t", "s">>

S_paperReviews == <<"p", "a", "p", "e", "r", "R", "e", "v", "i", "e", "w", "s">>

S_date == <<"d", "a", "t", "e">>

(***************************************************************************)
(* JavaScript values that occur in the parameter objects, and              *)
(* JSON.stringify of an object: the properties in insertion order, the     *)
(* properties whose value is undefined left out.                           *)
(***************************************************************************)
Num(n) == [t |-> "num", n |-> n, s |-> <<>>]

Str(s) == [t |-> "str", n |-> 0, s |-> s]

Bool(b) == [t |-> "bool", n |-> IF b THEN 1 ELSE 0, s |-> <<>>]

Undefined == [t |-> "undef", n |-> 0, s |-> <<>>]

\* A number that came out of parseFloat: finite (in tenths), Infinity or
\* -Infinity.
Float(x) == [t |-> "float", n |-> x.tenths, s |-> <<x.kind>>]

RECURSIVE Escape(_)
\* JSON string escaping of the characters the model uses: " and \ .
Escape(s) ==
  IF s = <<>> THEN <<>>
  ELSE (IF Head(s) = Q \/ Head(s) = "\\" THEN <<"\\", Head(s)>> ELSE <<Head(s)>>)
       \o Escape(Tail(s))

Quote(s) == <<Q>> \o Escape(s) \o <<Q>>

\* A finite number with one fractional digit at most, as JSON prints it.
TenthsText(n) ==
  LET a == IF n < 0 THEN -n ELSE n IN
    (IF n < 0 THEN <<"-">> ELSE <<>>) \o Digits(a \div 10)
    \o (IF a % 10 = 0 THEN <<>> ELSE <<".", DigitChar(a % 10)>>)

\* JSON.stringify prints a number that is not finite as null.
SerValue(v) ==
  CASE v.t = "num" -> NumberText(v.n)
    [] v.t = "float" -> IF v.s = <<"num">> THEN TenthsText(v.n)
                        ELSE <<"n", "u", "l", "l">>
    [] v.t = "str" -> Quote(v.s)
    [] v.t = "bool" -> IF v.n = 1 THEN <<"t", "r", "u", "e">>
                       ELSE <<"f", "a", "l", "s", "e">>

RECURSIVE SerProps(_, _)
\* The "name":value list of the defined properties, comma separated.
SerProps(props, first) ==
  IF props = <<>> THEN <<>>
  ELSE LET p == Head(props) IN
       IF p[2].t = "undef" THEN SerProps(Tail(props), first)
       ELSE (IF first THEN <<>> ELSE <<",">>)
            \o Quote(p[1]) \o <<":">> \o SerValue(p[2])
            \o SerProps(Tail(props), FALSE)

JSONstringify(params) == <<"{">> \o SerProps(params, TRUE) \o <<"}">>

getCacheKey(params) == JSONstringify(params)

(***************************************************************************)
(* The cache policy of the route file under consideration.                 *)
(***************************************************************************)
CACHE_TTL == IF inst = "papers" THEN TTL_PAPERS ELSE TTL_INTERACTIONS

Capacity == IF inst = "papers" THEN CAP_PAPERS ELSE CAP_INTERACTIONS

(***************************************************************************)
(* Response payloads.  A successful response is represented by the store   *)
(* version it was computed from; null is what getCachedQuery returns on a  *)
(* miss.                                                                   *)
(***************************************************************************)
Response(v) == [success |-> TRUE, ver |-> v]

Null == [success |-> FALSE, ver |-> -1]

(***************************************************************************)
(* Map: the entries [key, data, timestamp] in insertion order.             *)
(***************************************************************************)
MapHas(m, k) == \E i \in DOMAIN m : m[i].key = k

\* Map.get that answers with the first entry of the map, whatever the key.
MapGet_first(m, k) == m[1]

MapGet(m, k) == m[CHOOSE i \in DOMAIN m : m[i].key = k]

MapDelete(m, k) == SelectSeq(m, LAMBDA e : e.key # k)

\* Map.set that adds a second entry for a key that is already present.
\* Map.prototype.set that moves an existing key to the newest position.
MapSet_move(m, k, d, t) ==
  Append(MapDelete(m, k), [key |-> k, data |-> d, timestamp |-> t])

MapSet_append(m, k, d, t) == Append(m, [key |-> k, data |-> d, timestamp |-> t])

\* Map.prototype.set: an existing key keeps its place in the insertion order.
MapSet(m, k, d, t) ==
  IF MapHas(m, k)
  THEN [i \in DOMAIN m |->
          IF m[i].key = k THEN [key |-> k, data |-> d, timestamp |-> t] ELSE m[i]]
  ELSE Append(m, [key |-> k, data |-> d, timestamp |-> t])

MapKeys(m) == {m[i].key : i \in DOMAIN m}

\* getCachedQuery with the expiry test off by one (<= for <).
getCachedQuery_le(m, key, t) ==
  IF MapHas(m, key) /\ t - MapGet(m, key).timestamp <= CACHE_TTL
  THEN [result |-> MapGet(m, key).data, cache |-> m]
  ELSE [result |-> Null, cache |-> MapDelete(m, key)]

\* getCachedQuery that drops the whole map on a miss (clear for delete).
getCachedQuery_clear(m, key, t) ==
  IF MapHas(m, key) /\ t - MapGet(m, key).timestamp < CACHE_TTL
  THEN [result |-> MapGet(m, key).data, cache |-> m]
  ELSE [result |-> Null, cache |-> <<>>]

\* getCachedQuery that moves the entry it hits to the newest position (LRU).
getCachedQuery_lru(m, key, t) ==
  IF MapHas(m, key) /\ t - MapGet(m, key).timestamp < CACHE_TTL
  THEN [result |-> MapGet(m, key).data,
        cache |-> Append(MapDelete(m, key), MapGet(m, key))]
  ELSE [result |-> Null, cache |-> MapDelete(m, key)]

\* getCachedQuery(key) at time t: the value returned and the map afterwards.
getCachedQuery(m, key, t) ==
  IF MapHas(m, key) /\ t - MapGet(m, key).timestamp < CACHE_TTL
  THEN [result |-> MapGet(m, key).data, cache |-> m]
  ELSE [result |-> Null, cache |-> MapDelete(m, key)]

\* setCachedQuery with the size test off by one (> capacity + 1).
setCachedQuery_late(m, key, data, t) ==
  LET m1 == MapSet(m, key, data, t) IN
  IF Len(m1) > Capacity + 1 THEN MapDelete(m1, m1[1].key) ELSE m1

\* setCachedQuery that evicts the newest entry instead of the first.
setCachedQuery_last(m, key, data, t) ==
  LET m1 == MapSet(m, key, data, t) IN
  IF Len(m1) > Capacity THEN MapDelete(m1, m1[Len(m1)].key) ELSE m1

\* setCachedQuery(key, data) at time t: the map afterwards.
setCachedQuery(m, key, data, t) ==
  LET m1 == MapSet(m, key, data, t) IN
  IF Len(m1) > Capacity THEN MapDelete(m1, m1[1].key) ELSE m1

\* The test that looks for the researcherId property only.
UserKeyMatch_researcher(key, userId) ==
  Includes(key, Quote(S_researcherId) \o <<":">> \o Digits(userId))

\* The test of invalidateUserCache on one key.
UserKeyMatch(key, userId) ==
  \/ Includes(key, Quote(S_userId) \o <<":">> \o Digits(userId))
  \/ Includes(key, Quote(S_researcherId) \o <<":">> \o Digits(userId))

\* invalidateUserCache(userId): the map afterwards.
invalidateUserCache(m, userId) ==
  SelectSeq(m, LAMBDA e : ~UserKeyMatch(e.key, userId))

(***************************************************************************)
(* Requests.  A request is [route, id]: id is the user id or the paper id  *)
(* of the route, 0 for a route without one.  Query-string parameters are   *)
(* left out of the requests, so page and limit take their defaults and     *)
(* the optional filters are undefined.                                     *)
(***************************************************************************)
Users == {1, 12}

Papers == IF inst = "papers" THEN {1, 2} ELSE {1}

ReadRequests ==
  IF inst = "papers"
  THEN {[route |-> "detail", id |-> p] : p \in Papers}
       \cup {[route |-> "list", id |-> 0]}
  ELSE {[route |-> "searches", id |-> u] : u \in Users}
       \cup {[route |-> "downloadStats", id |-> 1],
             [route |-> "paperReviews", id |-> 1]}

\* The cache functions on their own are also called with the key of
\* GET /top-rated/by-field.
CacheRequests ==
  IF inst = "papers" THEN ReadRequests \cup {[route |-> "topRated", id |-> 0]}
  ELSE ReadRequests

UserScoped(route) == route \in {"searches", "downloadStats"}

PaperScoped(route) == route \in {"detail", "paperReviews"}

\* The parameter object each read handler hands to getCacheKey.
ParamsOf(r) ==
  CASE r.route = "detail" ->
         <<<<S_paperId, Str(Digits(r.id))>>>>
    [] r.route = "list" ->
         <<<<S_page, Num(1)>>, <<S_limit, Num(12)>>,
           <<S_fieldId, Undefined>>, <<S_search, Undefined>>>>
    [] r.route = "topRated" ->
         <<<<S_topRated, Bool(TRUE)>>, <<S_limit, Num(3)>>>>
    [] r.route = "searches" ->
         <<<<S_userId, Num(r.id)>>, <<S_page, Num(1)>>, <<S_limit, Num(10)>>,
           <<S_dateFrom, Undefined>>, <<S_dateTo, Undefined>>,
           <<S_type, Str(S_searches)>>>>
    [] r.route = "downloadStats" ->
         <<<<S_userId, Num(r.id)>>, <<S_type, Str(S_downloadStats)>>>>
    [] r.route = "paperReviews" ->
         <<<<S_paperId, Str(Digits(r.id))>>, <<S_page, Num(1)>>,
           <<S_limit, Num(10)>>, <<S_sortBy, Str(S_date)>>,
           <<S_type, Str(S_paperReviews)>>>>

\* The keys of all the requests of both route files, computed once.
AllRequests ==
  {[route |-> rt, id |-> i] :
     rt \in {"detail", "list", "topRated", "searches", "downloadStats", "paperReviews"},
     i \in {0, 1, 2, 3, 12}}

KeyTable == [r \in AllRequests |-> getCacheKey(ParamsOf(r))]

\* const cacheKey = getCacheKey({ ... })
CacheKeyOf(r) == KeyTable[r]

(***************************************************************************)
(* The relational store, reduced to what the cached responses depend on:   *)
(* per paper and per user the number of committed writes that touch it.    *)
(***************************************************************************)
RECURSIVE SumOver(_, _)
SumOver(f, S) ==
  IF S = {} THEN 0
  ELSE LET x == CHOOSE y \in S : TRUE IN f[x] + SumOver(f, S \ {x})

\* What the store queries of a read handler return, as a version.
StoreRead(st, r) ==
  CASE PaperScoped(r.route) -> st.paper[r.id]
    [] UserScoped(r.route) -> st.user[r.id]
    [] OTHER -> SumOver(st.paper, DOMAIN st.paper)

(***************************************************************************)
(* GET /search/query: the search over the papers.  The statements the      *)
(* handler sends to the store are modelled by what they compute over the   *)
(* rows of Paper (joined with Field, Paper_Keywords, Author and Review).   *)
(* LIKE is the store's: % stands for any run of characters, _ for any one  *)
(* character, letters compare without regard to case (the store's default  *)
(* collation).  Ratings are integers, averages are compared exactly, and a *)
(* minRating is given in tenths.                                           *)
(***************************************************************************)
UpperCase == <<"A", "B", "N">>

LowerCase == <<"a", "b", "n">>

\* One character under the case-insensitive collation.
Fold(c) ==
  IF \E i \in DOMAIN UpperCase : UpperCase[i] = c
  THEN LowerCase[CHOOSE i \in DOMAIN UpperCase : UpperCase[i] = c]
  ELSE c

FoldStr(s) == [i \in DOMAIN s |-> Fold(s[i])]

RECURSIVE LikeFolded(_, _)
LikeFolded(s, pat) ==
  IF pat = <<>> THEN s = <<>>
  ELSE IF Head(pat) = "%"
       THEN LikeFolded(s, Tail(pat)) \/ (s # <<>> /\ LikeFolded(Tail(s), pat))
       ELSE /\ s # <<>>
            /\ (Head(pat) = "_" \/ Head(pat) = Head(s))
            /\ LikeFolded(Tail(s), Tail(pat))

\* s LIKE pat
Like(s, pat) == LikeFolded(FoldStr(s), FoldStr(pat))

IsSpace(c) == c = " "

RECURSIVE TrimStart(_)
TrimStart(s) == IF s # <<>> /\ IsSpace(Head(s)) THEN TrimStart(Tail(s)) ELSE s

RECURSIVE TrimEnd(_)
TrimEnd(s) ==
  IF s # <<>> /\ IsSpace(s[Len(s)]) THEN TrimEnd(SubSeq(s, 1, Len(s) - 1)) ELSE s

\* String.prototype.trim
Trim(s) == TrimEnd(TrimStart(s))

RECURSIVE SplitSpaces(_, _)
\* s.split(/\s+/): cur is the piece being read.
SplitSpaces(s, cur) ==
  IF s = <<>> THEN <<cur>>
  ELSE IF IsSpace(Head(s))
       THEN <<cur>> \o SplitSpaces(TrimStart(s), <<>>)
       ELSE SplitSpaces(Tail(s), Append(cur, Head(s)))

\* query.trim().split(/\s+/).filter(term => term.length > 0)
searchTerms(query) ==
  SelectSeq(SplitSpaces(Trim(query), <<>>), LAMBDA term : Len(term) > 0)

\* `%${query.trim()}%`
searchPattern(query) == <<"%">> \o Trim(query) \o <<"%">>

\* `%${term}%`
TermPattern(term) == <<"%">> \o term \o <<"%">>

\* A request parameter that may be missing.
Absent == [given |-> FALSE, v |-> 0]

\* req.query.q missing.
NoQuery == [given |-> FALSE, v |-> <<>>]

Given(v) == [given |-> TRUE, v |-> v]

KeywordsLike(p, pat) == \E k \in p.Keywords : Like(k, pat)

AuthorLike(p, pat) ==
  \E a \in p.Authors : Like(a.First_Name, pat) \/ Like(a.Last_Name, pat)

RECURSIVE TermScores(_, _)
\* CASE WHEN p.Title LIKE @term<i> THEN 100 ELSE 0 END, summed over the terms.
TermScores(title, terms) ==
  IF terms = <<>> THEN 0
  ELSE (IF Like(title, TermPattern(Head(terms))) THEN 100 ELSE 0)
       + TermScores(title, Tail(terms))

\* relevanceScoreParts.join(' + ') evaluated on the row p.
relevanceScore(p, query) ==
  LET pat == searchPattern(query) IN
    (IF Like(p.Title, pat) THEN 1000 ELSE 0)
    + TermScores(p.Title, searchTerms(query))
    + (IF KeywordsLike(p, pat) THEN 500 ELSE 0)
    + (IF Like(p.Abstract, pat) THEN 200 ELSE 0)
    + (IF Like(p.Field_Name, pat) THEN 150 ELSE 0)
    + (IF AuthorLike(p, pat) THEN 300 ELSE 0)

\* whereConditions whose base condition accepts a field that holds any one
\* of the search terms instead of the full query.
whereConditions_terms(p, rq) ==
  /\ \E i \in DOMAIN searchTerms(rq.q.v) :
       LET pat == TermPattern(searchTerms(rq.q.v)[i]) IN
         \/ Like(p.Title, pat)
         \/ Like(p.Abstract, pat)
         \/ Like(p.Field_Name, pat)
         \/ Like(p.Description, pat)
         \/ KeywordsLike(p, pat)
         \/ AuthorLike(p, pat)
  /\ rq.fieldId.given => p.Field_ID = rq.fieldId.v
  /\ rq.dateFrom.given => p.Publication_Date >= rq.dateFrom.v
  /\ rq.dateTo.given => p.Publication_Date <= rq.dateTo.v

\* whereConditions.join(' AND ') evaluated on the row p.
whereConditions(p, rq) ==
  LET pat == searchPattern(rq.q.v) IN
    /\ \/ Like(p.Title, pat)
       \/ Like(p.Abstract, pat)
       \/ Like(p.Field_Name, pat)
       \/ Like(p.Description, pat)
       \/ KeywordsLike(p, pat)
       \/ AuthorLike(p, pat)
    /\ rq.fieldId.given => p.Field_ID = rq.fieldId.v
    /\ rq.dateFrom.given => p.Publication_Date >= rq.dateFrom.v
    /\ rq.dateTo.given => p.Publication_Date <= rq.dateTo.v

RECURSIVE SumSeq(_)
SumSeq(q) == IF q = <<>> THEN 0 ELSE Head(q) + SumSeq(Tail(q))

\* parseFloat(req.query.minRating) || 0, in tenths.
minRating(rq) == IF rq.minRating.given THEN rq.minRating.v ELSE 0

\* AVG(CAST(Rating as FLOAT)) >= @minRating ; AVG of no row is NULL and the
\* comparison with NULL is not true.
AvgAtLeast(p, m) ==
  /\ p.Ratings # <<>>
  /\ SumSeq(p.Ratings) * 10 >= m * Len(p.Ratings)

\* ISNULL(AVG(...), 0) >= @minRating : the Average_Rating column.
AverageRatingAtLeast(p, m) ==
  IF p.Ratings = <<>> THEN 0 >= m ELSE SumSeq(p.Ratings) * 10 >= m * Len(p.Ratings)

\* havingConditions that compares with > instead of >=.
havingConditions_gt(p, rq) ==
  minRating(rq) > 0
    => /\ p.Ratings # <<>>
       /\ SumSeq(p.Ratings) * 10 > minRating(rq) * Len(p.Ratings)

\* havingConditions.join(' AND ') evaluated on a row of SearchResults.
havingConditions(p, rq) ==
  minRating(rq) > 0 => AverageRatingAtLeast(p, minRating(rq))

\* The rows searchQuery selects, before ORDER BY and OFFSET/FETCH.
searchQuery(db, rq) ==
  {[Paper_ID |-> p.Paper_ID, Relevance_Score |-> relevanceScore(p, rq.q.v)] :
     p \in {x \in db : whereConditions(x, rq) /\ havingConditions(x, rq)}}

\* countQuery: COUNT(DISTINCT p.Paper_ID).
countQuery(db, rq) ==
  Cardinality({p.Paper_ID :
     p \in {x \in db : /\ whereConditions(x, rq)
                       /\ minRating(rq) > 0 => AvgAtLeast(x, minRating(rq))}})

(***************************************************************************)
(* The papers in the store and the requests the search is tried on.        *)
(***************************************************************************)
S_neural_networks == <<"n", "e", "u", "r", "a", "l", " ", "n", "e", "t", "w", "o", "r", "k", "s">>

S_Neural_Networks == <<"N", "e", "u", "r", "a", "l", " ", "N", "e", "t", "w", "o", "r", "k", "s">>

S_neural == <<"n", "e", "u", "r", "a", "l">>

S_a == <<"a">>

S_A == <<"A">>

S_b == <<"b">>

S_c == <<"c">>

S_a_b == <<"a", " ", "b">>

S_padded == <<" ", "a", " ", " ", "b", " ">>

S_underscore == <<"_">>

S_blank == <<" ">>

NoText ==
  [Title |-> <<>>, Abstract |-> <<>>, Field_Name |-> <<>>, Description |-> <<>>,
   Keywords |-> {}, Authors |-> {}]

TitleNeural == [NoText EXCEPT !.Title = S_Neural_Networks]

AbstractNeural == [NoText EXCEPT !.Abstract = S_neural]

Texts ==
  {TitleNeural, AbstractNeural,
   [NoText EXCEPT !.Title = S_a_b],
   [NoText EXCEPT !.Title = S_b, !.Abstract = S_a],
   [NoText EXCEPT !.Title = S_c, !.Keywords = {S_b, S_a}],
   [NoText EXCEPT !.Field_Name = S_A, !.Description = S_a_b],
   [NoText EXCEPT !.Description = S_a],
   [NoText EXCEPT !.Authors = {[First_Name |-> S_a, Last_Name |-> S_c]}],
   [NoText EXCEPT !.Title = S_a, !.Authors = {[First_Name |-> S_c, Last_Name |-> S_a_b]}]}

\* The reviews of a paper: none, an average of 4.0, an average of 3.9.
RatingLists == {<<>>, <<4>>, <<4, 4, 4, 4, 4, 4, 4, 4, 4, 3>>}

FieldIds == {1, 2}

Dates == {1, 2}

\* A paper with its field, keywords, authors, the ratings of its reviews and
\* the number of its Download rows.
PaperWith(id, text, field, date, ratings, downloads) ==
  [Paper_ID |-> id, Title |-> text.Title, Abstract |-> text.Abstract,
   Field_ID |-> field, Field_Name |-> text.Field_Name,
   Description |-> text.Description, Keywords |-> text.Keywords,
   Authors |-> text.Authors, Publication_Date |-> date, Ratings |-> ratings,
   Download_Count |-> downloads]

PaperRow(id, text, field, date, ratings) ==
  PaperWith(id, text, field, date, ratings, 0)

\* The store holds one paper, or the paper titled "Neural Networks" together
\* with the paper that has "neural" in its abstract.
PaperSets ==
  {{PaperRow(1, t, f, d, r)} :
     t \in Texts, f \in FieldIds, d \in Dates, r \in RatingLists}
  \cup {{PaperRow(1, TitleNeural, 1, d, r1), PaperRow(2, AbstractNeural, 1, d, r2)} :
          d \in Dates, r1 \in RatingLists, r2 \in RatingLists}

Queries ==
  {NoQuery, Given(S_blank), Given(S_neural_networks), Given(S_a), Given(S_A),
   Given(S_padded), Given(S_underscore)}

SearchRequests ==
  [q : Queries, fieldId : {Absent, Given(1)},
   minRating : {Absent, Given(39), Given(40)},
   dateFrom : {Absent, Given(1), Given(2)}, dateTo : {Absent, Given(1)}]

NoRequest ==
  [q |-> NoQuery, fieldId |-> Absent, minRating |-> Absent,
   dateFrom |-> Absent, dateTo |-> Absent]

NoSearch == [db |-> {}, rq |-> NoRequest, status |-> 0, papers |-> {}, total |-> 0]

(***************************************************************************)
(* Paging and ordering of GET /search/query: the query-string parameters   *)
(* as the handler parses them, the ORDER BY clause of the sort mode, and   *)
(* OFFSET/FETCH.  A query-string parameter is a string or missing.         *)
(***************************************************************************)
IsDigit(c) == c \in {"0", "1", "2", "3", "4", "5", "6", "7", "8", "9"}

DigitValue(c) == CHOOSE d \in 0..9 : DigitChar(d) = c

RECURSIVE LeadingDigits(_)
LeadingDigits(s) ==
  IF s = <<>> \/ ~IsDigit(Head(s)) THEN <<>>
  ELSE <<Head(s)>> \o LeadingDigits(Tail(s))

RECURSIVE DigitsValue(_, _)
DigitsValue(s, acc) ==
  IF s = <<>> THEN acc ELSE DigitsValue(Tail(s), 10 * acc + DigitValue(Head(s)))

NaN == [nan |-> TRUE, n |-> 0]

\* parseInt(string): leading blanks, an optional sign, the leading digits;
\* NaN when there is no digit, and for undefined.
parseInt(p) ==
  IF ~p.given THEN NaN
  ELSE LET s == TrimStart(p.v)
           neg == s # <<>> /\ Head(s) = "-"
           body == IF s # <<>> /\ Head(s) \in {"-", "+"} THEN Tail(s) ELSE s
           digs == LeadingDigits(body)
       IN IF digs = <<>> THEN NaN
          ELSE [nan |-> FALSE,
                n |-> IF neg THEN -DigitsValue(digs, 0) ELSE DigitsValue(digs, 0)]

\* x || d for a number x: d when x is NaN or 0.
OrElse(x, d) == IF x.nan \/ x.n = 0 THEN d ELSE x.n

S_Infinity == <<"I", "n", "f", "i", "n", "i", "t", "y">>

IsPrefix(pre, s) == Len(pre) <= Len(s) /\ SubSeq(s, 1, Len(pre)) = pre

\* parseFloat(string) of a decimal with one fractional digit at most, of
\* Infinity and of -Infinity; the finite value is held in tenths.
parseFloat(p) ==
  IF ~p.given THEN [kind |-> "nan", tenths |-> 0]
  ELSE LET s == TrimStart(p.v)
           neg == s # <<>> /\ Head(s) = "-"
           body == IF s # <<>> /\ Head(s) \in {"-", "+"} THEN Tail(s) ELSE s
           int == LeadingDigits(body)
           rest == SubSeq(body, Len(int) + 1, Len(body))
           frac == IF rest # <<>> /\ Head(rest) = "."
                   THEN LeadingDigits(Tail(rest)) ELSE <<>>
           mag == 10 * DigitsValue(int, 0)
                  + (IF frac = <<>> THEN 0 ELSE DigitValue(frac[1]))
       IN IF IsPrefix(S_Infinity, body)
          THEN [kind |-> IF neg THEN "-inf" ELSE "inf", tenths |-> 0]
          ELSE IF int = <<>> /\ frac = <<>> THEN [kind |-> "nan", tenths |-> 0]
          ELSE [kind |-> "num", tenths |-> IF neg THEN -mag ELSE mag]

\* parseFloat(req.query.minRating) || 0
minRatingOf(p) ==
  LET x == parseFloat(p) IN
    IF x.kind = "nan" THEN [kind |-> "num", tenths |-> 0] ELSE x

\* const page = parseInt(req.query.page) || 1
page(rq) == OrElse(parseInt(rq.page), 1)

\* const limit = parseInt(req.query.limit) || 12   (|| 10 in interactions.js)
limit(rq, default) == OrElse(parseInt(rq.limit), default)

\* const offset = (page - 1) * limit
offset(rq, default) == (page(rq) - 1) * limit(rq, default)

S_relevance == <<"r", "e", "l", "e", "v", "a", "n", "c", "e">>

S_rating == <<"r", "a", "t", "i", "n", "g">>

S_downloads == <<"d", "o", "w", "n", "l", "o", "a", "d", "s">>

S_newest == <<"n", "e", "w", "e", "s", "t">>

S_minRating == <<"m", "i", "n", "R", "a", "t", "i", "n", "g">>

\* const sortBy = req.query.sortBy || 'relevance'
sortBy(rq) ==
  IF rq.sortBy.given /\ rq.sortBy.v # <<>> THEN rq.sortBy.v ELSE S_relevance

\* switch (sortBy): the columns of the ORDER BY clause, all DESC.
orderByClause(sort) ==
  CASE sort = S_date -> <<"Publication_Date", "Relevance_Score">>
    [] sort = S_rating ->
         <<"Average_Rating", "Relevance_Score", "Publication_Date">>
    [] sort = S_downloads ->
         <<"Download_Count", "Relevance_Score", "Publication_Date">>
    [] OTHER ->
         <<"Relevance_Score", "Average_Rating", "Download_Count", "Publication_Date">>

\* The filters as the search statements use them.  fieldId, dateFrom and
\* dateTo are not sent by the requests that are paged; minRating is finite.
Parsed(rq) ==
  [q |-> rq.q, fieldId |-> Absent,
   minRating |-> LET m == minRatingOf(rq.minRating) IN
                   IF m.tenths = 0 THEN Absent ELSE Given(m.tenths),
   dateFrom |-> Absent, dateTo |-> Absent]

\* The rows of the SearchResults expression that pass the outer WHERE.
\* Average_Rating is ISNULL(AVG(CAST(Rating as FLOAT)), 0), held as the
\* ratings it is the average of.
SearchResults(db, rq) ==
  {[Paper_ID |-> p.Paper_ID, Publication_Date |-> p.Publication_Date,
    Download_Count |-> p.Download_Count, Ratings |-> p.Ratings,
    Relevance_Score |-> relevanceScore(p, rq.q.v)] :
     p \in {x \in db : whereConditions(x, Parsed(rq))
                       /\ havingConditions(x, Parsed(rq))}}

AvgSum(r) == IF r.Ratings = <<>> THEN 0 ELSE SumSeq(r.Ratings)

AvgLen(r) == IF r.Ratings = <<>> THEN 1 ELSE Len(r.Ratings)

\* a's value of the column is greater than b's.
Higher(a, b, col) ==
  IF col = "Average_Rating" THEN AvgSum(a) * AvgLen(b) > AvgSum(b) * AvgLen(a)
  ELSE a[col] > b[col]

Equal(a, b, col) ==
  IF col = "Average_Rating" THEN AvgSum(a) * AvgLen(b) = AvgSum(b) * AvgLen(a)
  ELSE a[col] = b[col]

RECURSIVE Before(_, _, _)
\* ORDER BY <clause>, every column DESC, puts a before b.
Before(a, b, clause) ==
  /\ clause # <<>>
  /\ \/ Higher(a, b, Head(clause))
     \/ Equal(a, b, Head(clause)) /\ Before(a, b, Tail(clause))

Arrangements(S) ==
  {s \in [1..Cardinality(S) -> S] : \A i, j \in DOMAIN s : i # j => s[i] # s[j]}

\* ORDER BY: the store may return the rows in any order that agrees with
\* the clause; rows that are equal in every column of the clause come in
\* either order.
OrderBy(rows, clause) ==
  {s \in Arrangements(rows) :
     \A i, j \in DOMAIN s : i < j => ~Before(s[j], s[i], clause)}

Min(a, b) == IF a <= b THEN a ELSE b

\* OFFSET @offset ROWS FETCH NEXT @limit ROWS ONLY
OffsetFetch(s, off, lim) == SubSeq(s, off + 1, Min(off + lim, Len(s)))

\* The store refuses a negative OFFSET and a FETCH of less than one row.
StoreRefuses(off, lim) == off < 0 \/ lim <= 0

\* Math.ceil(total / limit) for a positive limit.
Ceil(total, lim) == (total + lim - 1) \div lim

(***************************************************************************)
(* The papers and the requests GET /search/query is paged on.  Papers 1    *)
(* and 3 are equal in every column an ORDER BY clause names; paper 2 has   *)
(* the lowest score, the most downloads and no review.                     *)
(***************************************************************************)
TitleA == [NoText EXCEPT !.Title = S_a]

AbstractA == [NoText EXCEPT !.Title = S_b, !.Abstract = S_a]

PagedPapers ==
  {PaperWith(1, TitleA, 1, 1, <<4>>, 10),
   PaperWith(2, AbstractA, 1, 2, <<>>, 50),
   PaperWith(3, TitleA, 1, 1, <<4>>, 10)}

PagedIds == {p.Paper_ID : p \in PagedPapers}

PagingRequests ==
  [q : {NoQuery, Given(S_blank), Given(S_a)},
   page : {NoQuery, Given(<<"2">>), Given(<<"0">>), Given(<<"-", "1">>)},
   limit : {NoQuery, Given(<<"1">>), Given(<<"2">>), Given(<<"-", "1">>)},
   minRating : {NoQuery, Given(<<"4">>)},
   sortBy : {NoQuery, Given(S_date), Given(S_rating), Given(S_downloads),
             Given(S_newest)}]

\* { search: query, page, limit, fieldId, minRating, dateFrom, dateTo, sortBy }
PagingParams(rq) ==
  <<<<S_search, IF rq.q.given THEN Str(rq.q.v) ELSE Undefined>>,
    <<S_page, Num(page(rq))>>, <<S_limit, Num(limit(rq, 12))>>,
    <<S_fieldId, Undefined>>,
    <<S_minRating, Float(minRatingOf(rq.minRating))>>,
    <<S_dateFrom, Undefined>>, <<S_dateTo, Undefined>>,
    <<S_sortBy, Str(sortBy(rq))>>>>

PagingKeyTable == [rq \in PagingRequests |-> getCacheKey(PagingParams(rq))]

\* The same request apart from its page.
SameQuery(a, b) == [a EXCEPT !.page = NoQuery] = [b EXCEPT !.page = NoQuery]

NoPagingRequest ==
  [q |-> NoQuery, page |-> NoQuery, limit |-> NoQuery, minRating |-> NoQuery,
   sortBy |-> NoQuery]

\* paging follows GET /search/query and the store it reads:
\*   db        the papers with their reviews and downloads;
\*   route     the handler that was called last;
\*   rq, pc    the request being served and where its handler is
\*             ("idle", "page": the page query is awaited, "count": the
\*             count query is awaited);
\*   status, hit, papers, total, pages   the response sent last;
\*   cacheOps, storeOps   the calls of cache functions and the store
\*             queries the handler has made for rq;
\*   matched   the number of rows that passed the filters when the page
\*             query ran;
\*   prev      the request and the rows of the response computed before;
\*   served, writes   the requests started and the writes committed.
NoAnswer == [rq |-> NoPagingRequest, papers |-> <<>>, on |-> FALSE]

NoPaging ==
  [db |-> PagedPapers, route |-> "none", rq |-> NoPagingRequest, pc |-> "idle",
   status |-> 0,
   hit |-> FALSE, papers |-> <<>>, total |-> 0, pages |-> 0, cacheOps |-> 0,
   storeOps |-> 0, matched |-> 0, prev |-> NoAnswer, served |-> 0, writes |-> 0]

\* { userId, page, limit, fieldId, dateFrom, dateTo, type: 'downloads' }
DownloadsParams(u, rq) ==
  <<<<S_userId, Num(u)>>, <<S_page, Num(page(rq))>>,
    <<S_limit, Num(limit(rq, 10))>>, <<S_fieldId, Undefined>>,
    <<S_dateFrom, Undefined>>, <<S_dateTo, Undefined>>,
    <<S_type, Str(S_downloads)>>>>

DownloadsRequests ==
  {[NoPagingRequest EXCEPT !.page = pg] : pg \in {NoQuery, Given(<<"-", "1">>)}}

DownloadsKeyTable ==
  [u \in {1, 12}, rq \in DownloadsRequests |-> getCacheKey(DownloadsParams(u, rq))]

(***************************************************************************)
(* The cache keys of two requests of one route file.  A request is the     *)
(* route family with the parameters its handler reads; the parameters a    *)
(* family does not read are left missing.                                  *)
(***************************************************************************)
S_popular == <<"p", "o", "p", "u", "l", "a", "r">>

S_days == <<"d", "a", "y", "s">>

S_userReviews == <<"u", "s", "e", "r", "R", "e", "v", "i", "e", "w", "s">>

KeyRequest(family, id, q, pg, lim, rating, sort) ==
  [family |-> family, id |-> id, q |-> q, page |-> pg, limit |-> lim,
   minRating |-> rating, sortBy |-> sort]

PapersKeyRequests ==
  {KeyRequest("search", 0, q, pg, NoQuery, m, s) :
     q \in {Given(S_a), Given(S_b)}, pg \in {NoQuery, Given(<<"2">>)},
     m \in {NoQuery, Given(<<"4">>), Given(S_Infinity),
            Given(<<"-">> \o S_Infinity)},
     s \in {NoQuery, Given(S_rating)}}
  \cup {KeyRequest("list", 0, q, pg, lim, NoQuery, NoQuery) :
          q \in {NoQuery, Given(S_a)}, pg \in {NoQuery, Given(<<"2">>)},
          lim \in {NoQuery, Given(<<"3">>)}}
  \cup {KeyRequest("detail", id, NoQuery, NoQuery, NoQuery, NoQuery, NoQuery) :
          id \in {1, 12}}
  \cup {KeyRequest("topRated", 0, NoQuery, NoQuery, lim, NoQuery, NoQuery) :
          lim \in {NoQuery, Given(<<"1", "2">>)}}

InteractionsKeyRequests ==
  {KeyRequest(f, id, NoQuery, pg, NoQuery, NoQuery, NoQuery) :
     f \in {"searches", "downloads", "userReviews"}, id \in {1, 12},
     pg \in {NoQuery, Given(<<"2">>)}}
  \cup {KeyRequest("downloadStats", id, NoQuery, NoQuery, NoQuery, NoQuery, NoQuery) :
          id \in {1, 12}}
  \cup {KeyRequest("paperReviews", id, NoQuery, pg, NoQuery, NoQuery, s) :
          id \in {1, 12}, pg \in {NoQuery, Given(<<"2">>)},
          s \in {NoQuery, Given(S_rating)}}
  \cup {KeyRequest("popular", 0, NoQuery, NoQuery, lim, NoQuery, NoQuery) :
          lim \in {NoQuery, Given(<<"3">>)}}

Optional(p) == IF p.given THEN Str(p.v) ELSE Undefined

\* The object the handler of the family hands to getCacheKey.
RouteParams(r) ==
  CASE r.family = "search" -> PagingParams(r)
    [] r.family = "list" ->
         <<<<S_page, Num(page(r))>>, <<S_limit, Num(limit(r, 12))>>,
           <<S_fieldId, Undefined>>, <<S_search, Optional(r.q)>>>>
    [] r.family = "detail" -> <<<<S_paperId, Str(Digits(r.id))>>>>
    [] r.family = "topRated" ->
         <<<<S_topRated, Bool(TRUE)>>, <<S_limit, Num(limit(r, 3))>>>>
    [] r.family = "searches" ->
         <<<<S_userId, Num(r.id)>>, <<S_page, Num(page(r))>>,
           <<S_limit, Num(limit(r, 10))>>, <<S_dateFrom, Undefined>>,
           <<S_dateTo, Undefined>>, <<S_type, Str(S_searches)>>>>
    [] r.family = "downloads" -> DownloadsParams(r.id, r)
    [] r.family = "downloadStats" ->
         <<<<S_userId, Num(r.id)>>, <<S_type, Str(S_downloadStats)>>>>
    [] r.family = "userReviews" ->
         <<<<S_userId, Num(r.id)>>, <<S_page, Num(page(r))>>,
           <<S_limit, Num(limit(r, 10))>>, <<S_type, Str(S_userReviews)>>>>
    [] r.family = "paperReviews" ->
         <<<<S_paperId, Str(Digits(r.id))>>, <<S_page, Num(page(r))>>,
           <<S_limit, Num(limit(r, 10))>>,
           <<S_sortBy, IF r.sortBy.given THEN Str(r.sortBy.v) ELSE Str(S_date)>>,
           <<S_type, Str(S_paperReviews)>>>>
    [] r.family = "popular" ->
         <<<<S_popular, Bool(TRUE)>>, <<S_limit, Num(limit(r, 10))>>,
           <<S_days, Num(30)>>>>

RouteKeyTable ==
  [r \in PapersKeyRequests \cup InteractionsKeyRequests |->
     getCacheKey(RouteParams(r))]

NoPair == [on |-> FALSE, a |-> KeyRequest("none", 0, NoQuery, NoQuery, NoQuery, NoQuery, NoQuery),
           b |-> KeyRequest("none", 0, NoQuery, NoQuery, NoQuery, NoQuery, NoQuery),
           ka |-> <<>>, kb |-> <<>>]

(***************************************************************************)
(* Request slots: one async handler invocation each.                       *)
(*   pc = "done"       no handler is running in the slot                   *)
(*   pc = "await"      read handler after a cache miss, store not yet read *)
(*   pc = "fetched"    read handler holding the store's answer             *)
(*   pc = "committed"  write handler whose INSERT/UPDATE has committed,    *)
(*                     continuation (the invalidation) not yet run         *)
(* snap is the store version a read handler read or a write handler wrote, *)
(* at the time a write committed.                                          *)
(*                                                                         *)
(* look observes the getCachedQuery call of the step just taken: its key,  *)
(* the age of the entry Map.get found (-1 if none), the value returned,    *)
(* and, for                                                                *)
(* GET /:id, the highest version of the paper whose write handler had run  *)
(* its invalidation when the call was made.  Every other step clears it.   *)
(***************************************************************************)
IdleSlot ==
  [pc |-> "done", route |-> "none", id |-> 0, actor |-> 0,
   key |-> <<>>, snap |-> -1, at |-> -1]

NoLook ==
  [called |-> FALSE, key |-> <<>>, age |-> -1, result |-> Null, mustSee |-> 0]

WriteRequests ==
  IF inst = "papers"
  THEN {[route |-> rt, id |-> p, actor |-> 1] :
          rt \in {"download", "review"}, p \in Papers}
  ELSE {[route |-> "reviews", id |-> p, actor |-> u] : p \in Papers, u \in Users}

AgeOf(m, key, t) == IF MapHas(m, key) THEN t - MapGet(m, key).timestamp ELSE -1

Max(a, b) == IF a >= b THEN a ELSE b

\* hist follows the responses the read handlers hold and store:
\*   at[h]    when the store queries of the handler in slot h completed
\*            (-1: none held);
\*   last[k]  for a key k that is in the map, the setCachedQuery call that
\*            stored it last: its data, its time t, and when the data was
\*            read from the store (readAt).
AllKeys == {CacheKeyOf(r) : r \in CacheRequests}

NoPut == [data |-> Null, t |-> -1, readAt |-> -1]

NoHist == [at |-> [h \in Slots |-> -1], last |-> [k \in AllKeys |-> NoPut]]

\* reviews follows the Review table and the review submissions (POST
\* /reviews, POST /:id/review), one per slot:
\*   rows   the rows of the table;
\*   issued the identity values the table has handed out (a deleted row's
\*          Review_ID is not used again);
\*   call   per slot the submission: its paper, researcher and rating, where
\*          the handler is ("idle", "checked": the existingReview query has
\*          returned, "done"), the Review_ID the query found (0: none) and
\*          the status answered.
NoCall ==
  [pc |-> "idle", paper |-> 0, researcher |-> 0, rating |-> 0, existing |-> 0,
   status |-> 0]

NoReviews == [rows |-> {}, issued |-> 0, call |-> [h \in Slots |-> NoCall]]

\* scoped follows the request of a user-scoped read route served last: the
\* route, the :userId parameter as parseInt reads it, the caller's id and
\* role from the token, the status answered and the response sent (Null:
\* none).
NoScoped ==
  [route |-> "none", userId |-> NaN, actor |-> 0, role |-> "none", status |-> 0,
   got |-> Null]

NoGhosts == UNCHANGED <<puts, watch, P1, P2, hist, search, paging, reviews, pair, scoped>>

Init ==
  /\ inst \in Instances
  /\ queryCache = <<>>
  /\ now = 0
  /\ store = [paper |-> [p \in Papers |-> 0], user |-> [u \in Users |-> 0]]
  /\ invDone = [p \in Papers |-> 0]
  /\ req = [h \in Slots |-> IdleSlot]
  /\ look = NoLook
  /\ puts = <<>>
  /\ watch = [on |-> FALSE, data |-> Null, t |-> 0, others |-> 0,
              inval |-> FALSE, fresh |-> FALSE]
  /\ P1 = <<>>
  /\ P2 = <<>>
  /\ hist = NoHist
  /\ search = NoSearch
  /\ paging = NoPaging
  /\ reviews = NoReviews
  /\ pair = NoPair
  /\ scoped = NoScoped

\* Time passes.
Tick ==
  /\ now < MaxTime
  /\ now' = now + 1
  /\ look' = NoLook
  /\ UNCHANGED <<inst, queryCache, store, invDone, req>>

\* A cached read handler up to its first await: build the key, look it up,
\* answer from the cache on a hit.
ReadStart(h, r) ==
  /\ req[h].pc = "done"
  /\ LET key == CacheKeyOf(r)
         cached == getCachedQuery(queryCache, key, now)
     IN /\ queryCache' = cached.cache
        /\ look' = [called |-> TRUE, key |-> key,
                    age |-> AgeOf(queryCache, key, now),
                    result |-> cached.result,
                    mustSee |-> IF r.route = "detail" THEN invDone[r.id] ELSE 0]
        /\ req' = [req EXCEPT ![h] =
             IF cached.result # Null THEN IdleSlot
             ELSE [IdleSlot EXCEPT !.pc = "await", !.route = r.route,
                                   !.id = r.id, !.key = key]]
  /\ UNCHANGED <<inst, now, store, invDone>>

\* The store queries of a read handler complete.
ReadStore(h) ==
  /\ req[h].pc = "await"
  /\ req' = [req EXCEPT ![h].pc = "fetched",
                        ![h].snap = StoreRead(store, req[h])]
  /\ look' = NoLook
  /\ UNCHANGED <<inst, queryCache, now, store, invDone>>

\* The handler builds the response, caches it and sends it.
ReadFinish(h) ==
  /\ req[h].pc = "fetched"
  /\ queryCache' = setCachedQuery(queryCache, req[h].key,
                                  Response(req[h].snap), now)
  /\ req' = [req EXCEPT ![h] = IdleSlot]
  /\ look' = NoLook
  /\ UNCHANGED <<inst, now, store, invDone>>

\* A write handler's INSERT/UPDATE commits in the store.
WriteCommit(h, w) ==
  /\ req[h].pc = "done"
  /\ store.paper[w.id] < MaxWrites
  /\ store' = [paper |-> [store.paper EXCEPT ![w.id] = @ + 1],
               user |-> IF inst = "papers" THEN store.user
                        ELSE [store.user EXCEPT ![w.actor] = @ + 1]]
  /\ req' = [req EXCEPT ![h] =
       [IdleSlot EXCEPT !.pc = "committed", !.route = "write",
                        !.id = w.id, !.actor = w.actor,
                        !.snap = store.paper[w.id] + 1, !.at = now]]
  /\ look' = NoLook
  /\ UNCHANGED <<inst, queryCache, now, invDone>>

\* PaperInvalidate that empties the map (clear for delete).
PaperInvalidate_clear(h) ==
  /\ inst = "papers"
  /\ req[h].pc = "committed"
  /\ queryCache' = <<>>
  /\ invDone' = [invDone EXCEPT ![req[h].id] = Max(@, req[h].snap)]
  /\ req' = [req EXCEPT ![h] = IdleSlot]
  /\ look' = NoLook
  /\ UNCHANGED <<inst, now, store>>

\* papers: queryCache.delete(getCacheKey({ paperId })), then the response.
PaperInvalidate(h) ==
  /\ inst = "papers"
  /\ req[h].pc = "committed"
  /\ queryCache' = MapDelete(queryCache,
                     getCacheKey(<<<<S_paperId, Str(Digits(req[h].id))>>>>))
  /\ invDone' = [invDone EXCEPT ![req[h].id] = Max(@, req[h].snap)]
  /\ req' = [req EXCEPT ![h] = IdleSlot]
  /\ look' = NoLook
  /\ UNCHANGED <<inst, now, store>>

\* interactions: invalidateUserCache(researcherId), then the response.
UserInvalidate(h) ==
  /\ inst = "interactions"
  /\ req[h].pc = "committed"
  /\ queryCache' = invalidateUserCache(queryCache, req[h].actor)
  /\ req' = [req EXCEPT ![h] = IdleSlot]
  /\ look' = NoLook
  /\ UNCHANGED <<inst, now, store, invDone>>

Next ==
  \/ Tick /\ NoGhosts
  \/ \E h \in Slots, r \in ReadRequests : ReadStart(h, r) /\ NoGhosts
  \/ \E h \in Slots : ReadStore(h) /\ NoGhosts
  \/ \E h \in Slots : ReadFinish(h) /\ NoGhosts
  \/ \E h \in Slots, w \in WriteRequests : WriteCommit(h, w) /\ NoGhosts
  \/ \E h \in Slots : PaperInvalidate(h) /\ NoGhosts
  \/ \E h \in Slots : UserInvalidate(h) /\ NoGhosts

\* The route handlers of one route file, interleaved at their awaits.
Spec == Init /\ [][Next]_vars

(***************************************************************************)
(* The cache functions on their own: every call is atomic (one JavaScript  *)
(* turn), and the handlers may issue the calls in any order with any of    *)
(* the keys and any response, which SpecCache allows.                      *)
(***************************************************************************)
\* The cache does not look into a response: two different ones are enough.
Versions == {0, 1}

NoHandlers == UNCHANGED <<inst, store, invDone, req>>

CacheGet(r) ==
  /\ LET key == CacheKeyOf(r)
         cached == getCachedQuery(queryCache, key, now)
     IN /\ queryCache' = cached.cache
        /\ look' = [called |-> TRUE, key |-> key,
                    age |-> AgeOf(queryCache, key, now),
                    result |-> cached.result, mustSee |-> 0]
  /\ UNCHANGED now

CachePut(r, v) ==
  /\ queryCache' = setCachedQuery(queryCache, CacheKeyOf(r), Response(v), now)
  /\ look' = NoLook
  /\ UNCHANGED now

CacheDelete(p) ==
  /\ inst = "papers"
  /\ queryCache' = MapDelete(queryCache,
                     getCacheKey(<<<<S_paperId, Str(Digits(p))>>>>))
  /\ look' = NoLook
  /\ UNCHANGED now

CacheInvalidateUser(u) ==
  /\ inst = "interactions"
  /\ queryCache' = invalidateUserCache(queryCache, u)
  /\ look' = NoLook
  /\ UNCHANGED now

NextCache ==
  \/ Tick /\ NoGhosts
  \/ \E r \in CacheRequests : CacheGet(r) /\ NoHandlers /\ NoGhosts
  \/ \E r \in CacheRequests, v \in Versions :
       CachePut(r, v) /\ NoHandlers /\ NoGhosts
  \/ \E p \in Papers : CacheDelete(p) /\ NoHandlers /\ NoGhosts
  \/ \E u \in Users : CacheInvalidateUser(u) /\ NoHandlers /\ NoGhosts

SpecCache == Init /\ [][NextCache]_vars

(***************************************************************************)
(* Filling an empty cache with distinct keys: puts records the             *)
(* setCachedQuery calls made so far, [key, data, t] each.                  *)
(***************************************************************************)
FillPut(r, v) ==
  /\ Len(puts) <= Capacity
  /\ \A i \in DOMAIN puts : puts[i].key # CacheKeyOf(r)
  /\ queryCache' = setCachedQuery(queryCache, CacheKeyOf(r), Response(v), now)
  /\ puts' = Append(puts, [key |-> CacheKeyOf(r), data |-> Response(v), t |-> now])
  /\ look' = NoLook
  /\ UNCHANGED now

NextFill ==
  \/ Tick /\ NoGhosts
  \/ \E r \in CacheRequests, v \in Versions :
       FillPut(r, v) /\ NoHandlers /\ UNCHANGED <<watch, P1, P2, hist, search, paging, reviews, pair, scoped>>

SpecFill == Init /\ [][NextFill]_vars

(***************************************************************************)
(* getCacheKey on its own.  P1 and P2 are two parameter objects, built by  *)
(* property assignments: a JavaScript object keeps its (string-named)      *)
(* properties in the order of their first assignment.                      *)
(***************************************************************************)
PropNames == {S_page, S_limit, S_sortBy}

PropValues == {Num(1), Num(12)}

HasProp(obj, name) == \E i \in DOMAIN obj : obj[i][1] = name

\* obj[name] = value
SetProp(obj, name, value) ==
  IF HasProp(obj, name)
  THEN [i \in DOMAIN obj |-> IF obj[i][1] = name THEN <<name, value>> ELSE obj[i]]
  ELSE Append(obj, <<name, value>>)

KeySet1(name, value) ==
  /\ P1' = SetProp(P1, name, value)
  /\ UNCHANGED <<inst, queryCache, now, store, invDone, req, look, puts, watch, P2,
                 hist, search, paging, reviews, pair, scoped>>

KeySet2(name, value) ==
  /\ P2' = SetProp(P2, name, value)
  /\ UNCHANGED <<inst, queryCache, now, store, invDone, req, look, puts, watch, P1,
                 hist, search, paging, reviews, pair, scoped>>

NextKey ==
  \/ \E name \in PropNames, value \in PropValues : KeySet1(name, value)
  \/ \E name \in PropNames, value \in PropValues : KeySet2(name, value)

SpecKey == Init /\ [][NextKey]_vars

(***************************************************************************)
(* The handlers again, with watch following the latest setCachedQuery of   *)
(* one key (WatchedKey): its data and time, the number of puts of other    *)
(* keys that were not in the map since then (counted up to the capacity),  *)
(* whether a write handler's invalidation has addressed the key since, and *)
(* whether the key was absent from the map when it was put (fresh).        *)
(* The papers route file is followed.                                      *)
(***************************************************************************)
WatchedKey == CacheKeyOf([route |-> "detail", id |-> 1])

WatchPut(h) ==
  IF req[h].key = WatchedKey
  THEN [on |-> TRUE, data |-> Response(req[h].snap), t |-> now,
        others |-> 0, inval |-> FALSE, fresh |-> ~MapHas(queryCache, WatchedKey)]
  ELSE IF watch.on /\ ~MapHas(queryCache, req[h].key) /\ watch.others < Capacity
       THEN [watch EXCEPT !.others = @ + 1]
       ELSE watch

WatchInvalidate(h) ==
  IF watch.on
     /\ getCacheKey(<<<<S_paperId, Str(Digits(req[h].id))>>>>) = WatchedKey
  THEN [watch EXCEPT !.inval = TRUE]
  ELSE watch

NextWatch ==
  \/ Tick /\ NoGhosts
  \/ \E h \in Slots, r \in ReadRequests : ReadStart(h, r) /\ NoGhosts
  \/ \E h \in Slots : ReadStore(h) /\ NoGhosts
  \/ \E h \in Slots :
       ReadFinish(h) /\ watch' = WatchPut(h) /\ UNCHANGED <<puts, P1, P2, hist, search, paging, reviews, pair, scoped>>
  \/ \E h \in Slots, w \in WriteRequests : WriteCommit(h, w) /\ NoGhosts
  \/ \E h \in Slots :
       PaperInvalidate(h) /\ watch' = WatchInvalidate(h)
         /\ UNCHANGED <<puts, P1, P2, hist, search, paging, reviews, pair, scoped>>

InitWatch == Init /\ inst = "papers"

SpecWatch == InitWatch /\ [][NextWatch]_vars

(***************************************************************************)
(* The read handlers with hist following what each handler read from the   *)
(* store and stored in the cache.  An entry that leaves the map (deleted,   *)
(* evicted or dropped as expired) leaves hist.last as well.                *)
(***************************************************************************)
HistKeep(l) == [k \in AllKeys |-> IF MapHas(queryCache', k) THEN l[k] ELSE NoPut]

HistSame == hist' = [hist EXCEPT !.last = HistKeep(hist.last)]

HistRead(h) == hist' = [hist EXCEPT !.at[h] = now]

HistPut(h) ==
  hist' = [at |-> [hist.at EXCEPT ![h] = -1],
           last |-> HistKeep([hist.last EXCEPT ![req[h].key] =
                      [data |-> Response(req[h].snap), t |-> now,
                       readAt |-> hist.at[h]]])]

NoOtherGhosts == UNCHANGED <<puts, watch, P1, P2, search, paging, reviews, pair, scoped>>

NextAge ==
  \/ Tick /\ NoGhosts
  \/ \E h \in Slots, r \in ReadRequests : ReadStart(h, r) /\ HistSame /\ NoOtherGhosts
  \/ \E h \in Slots : ReadStore(h) /\ HistRead(h) /\ NoOtherGhosts
  \/ \E h \in Slots : ReadFinish(h) /\ HistPut(h) /\ NoOtherGhosts

SpecAge == Init /\ [][NextAge]_vars

(***************************************************************************)
(* The cache functions on their own, with hist.last following the          *)
(* setCachedQuery calls.                                                   *)
(***************************************************************************)
HistCachePut(r, v) ==
  hist' = [hist EXCEPT !.last =
             HistKeep([@ EXCEPT ![CacheKeyOf(r)] =
                         [data |-> Response(v), t |-> now, readAt |-> now]])]

NextPut ==
  \/ Tick /\ NoGhosts
  \/ \E r \in CacheRequests :
       CacheGet(r) /\ NoHandlers /\ HistSame /\ NoOtherGhosts
  \/ \E r \in CacheRequests, v \in Versions :
       CachePut(r, v) /\ NoHandlers /\ HistCachePut(r, v) /\ NoOtherGhosts
  \/ \E p \in Papers : CacheDelete(p) /\ NoHandlers /\ HistSame /\ NoOtherGhosts
  \/ \E u \in Users :
       CacheInvalidateUser(u) /\ NoHandlers /\ HistSame /\ NoOtherGhosts

SpecPut == Init /\ [][NextPut]_vars

(***************************************************************************)
(* The search on its own: papers are put in the store, then                *)
(* GET /search/query is answered from the store (the path of a cache       *)
(* miss), for every request of SearchRequests; one request is followed.     *)
(***************************************************************************)
SeedPapers(db) ==
  /\ search.db = {}
  /\ search' = [NoSearch EXCEPT !.db = db]
  /\ UNCHANGED <<inst, queryCache, now, store, invDone, req, look, puts, watch,
                 P1, P2, hist, paging, reviews, pair, scoped>>

\* if (!query || query.trim().length === 0) return res.status(400)
SearchRejected(rq) ==
  /\ search.db # {} /\ search.status = 0
  /\ ~rq.q.given \/ Len(Trim(rq.q.v)) = 0
  /\ search' = [db |-> search.db, rq |-> rq, status |-> 400,
                papers |-> {}, total |-> 0]
  /\ UNCHANGED <<inst, queryCache, now, store, invDone, req, look, puts, watch,
                 P1, P2, hist, paging, reviews, pair, scoped>>

SearchAnswered(rq) ==
  /\ search.db # {} /\ search.status = 0
  /\ rq.q.given /\ Len(Trim(rq.q.v)) # 0
  /\ search' = [db |-> search.db, rq |-> rq, status |-> 200,
                papers |-> searchQuery(search.db, rq),
                total |-> countQuery(search.db, rq)]
  /\ UNCHANGED <<inst, queryCache, now, store, invDone, req, look, puts, watch,
                 P1, P2, hist, paging, reviews, pair, scoped>>

NextSearch ==
  \/ \E db \in PaperSets : SeedPapers(db)
  \/ \E rq \in SearchRequests : SearchRejected(rq)
  \/ \E rq \in SearchRequests : SearchAnswered(rq)

InitSearch == Init /\ inst = "papers"

SpecSearch == InitSearch /\ [][NextSearch]_vars

(***************************************************************************)
(* The handlers with their error paths: GET /search/query at its awaits,   *)
(* GET /:id, POST /:id/review and POST /:id/download of the papers routes, *)
(* POST /search and GET /downloads/user/:userId of the interaction         *)
(* routes.  A client pages through one search: the search requests of a    *)
(* run differ in their page only.  paging.route names the handler that     *)
(* was called last.                                                        *)
(***************************************************************************)
RoutesOnly ==
  UNCHANGED <<inst, now, invDone, req, puts, watch, P1, P2, hist, search,
              reviews, pair, scoped>>

Blank(q) == ~q.given \/ Len(Trim(q.v)) = 0

\* A handler is entered: nothing answered, no call made yet.
Begin(route) ==
  [paging EXCEPT !.route = route, !.status = 0, !.hit = FALSE,
                 !.papers = <<>>, !.total = 0, !.pages = 0, !.cacheOps = 0,
                 !.storeOps = 0, !.matched = 0, !.served = @ + 1]

\* The values of a search response that the claims are about.
SearchResponse(papers, total, rq) ==
  Response([papers |-> papers, total |-> total,
            pages |-> Ceil(total, limit(rq, 12))])

\* GET /search/query that looks the key up before it validates the query.
PagingStart_lookup(rq) ==
  /\ inst = "papers" /\ paging.pc = "idle" /\ paging.served < MaxRequests
  /\ paging.rq # NoPagingRequest => SameQuery(rq, paging.rq)
  /\ LET key == PagingKeyTable[rq]
         cached == getCachedQuery(queryCache, key, now)
         b == [Begin("search") EXCEPT !.rq = rq, !.cacheOps = 1]
     IN /\ queryCache' = cached.cache
        /\ look' = [called |-> TRUE, key |-> key,
                    age |-> AgeOf(queryCache, key, now),
                    result |-> cached.result, mustSee |-> 0]
        /\ paging' =
             IF Blank(rq.q) THEN [b EXCEPT !.status = 400]
             ELSE IF cached.result # Null
             THEN [b EXCEPT !.status = 200, !.hit = TRUE,
                            !.papers = cached.result.ver.papers,
                            !.total = cached.result.ver.total,
                            !.pages = cached.result.ver.pages]
             ELSE [b EXCEPT !.pc = "page"]
  /\ store' = store
  /\ RoutesOnly

\* GET /search/query up to its first await: the parameters are parsed, a
\* missing or blank query is answered with 400, the key is looked up and a
\* hit is answered from the cache.
PagingStart(rq) ==
  /\ inst = "papers" /\ paging.pc = "idle" /\ paging.served < MaxRequests
  /\ paging.rq # NoPagingRequest => SameQuery(rq, paging.rq)
  /\ IF Blank(rq.q)
     THEN /\ paging' = [Begin("search") EXCEPT !.rq = rq, !.status = 400]
          /\ look' = NoLook
          /\ queryCache' = queryCache
     ELSE LET key == PagingKeyTable[rq]
              cached == getCachedQuery(queryCache, key, now)
              b == [Begin("search") EXCEPT !.rq = rq, !.cacheOps = 1]
          IN /\ queryCache' = cached.cache
             /\ look' = [called |-> TRUE, key |-> key,
                         age |-> AgeOf(queryCache, key, now),
                         result |-> cached.result, mustSee |-> 0]
             /\ paging' =
                  IF cached.result # Null
                  THEN [b EXCEPT !.status = 200, !.hit = TRUE,
                                 !.papers = cached.result.ver.papers,
                                 !.total = cached.result.ver.total,
                                 !.pages = cached.result.ver.pages]
                  ELSE [b EXCEPT !.pc = "page"]
  /\ store' = store
  /\ RoutesOnly

\* The page query with an ORDER BY clause that sorts downloads by the
\* relevance score first.
PagingPage_score ==
  /\ paging.pc = "page"
  /\ LET off == offset(paging.rq, 12)
         lim == limit(paging.rq, 12)
         rows == SearchResults(paging.db, paging.rq)
         clause == IF sortBy(paging.rq) = S_downloads
                   THEN <<"Relevance_Score", "Download_Count", "Publication_Date">>
                   ELSE orderByClause(sortBy(paging.rq))
     IN IF StoreRefuses(off, lim)
        THEN paging' = [paging EXCEPT !.pc = "idle", !.status = 500,
                                      !.storeOps = @ + 1]
        ELSE \E ord \in OrderBy(rows, clause) :
               paging' = [paging EXCEPT !.pc = "count", !.storeOps = @ + 1,
                                        !.papers = OffsetFetch(ord, off, lim),
                                        !.matched = Cardinality(rows)]
  /\ look' = NoLook
  /\ UNCHANGED <<queryCache, store>>
  /\ RoutesOnly

\* The page query OFFSET/FETCH that skips page * limit rows.
PagingPage_skip ==
  /\ paging.pc = "page"
  /\ LET off == page(paging.rq) * limit(paging.rq, 12)
         lim == limit(paging.rq, 12)
         rows == SearchResults(paging.db, paging.rq)
     IN IF StoreRefuses(off, lim)
        THEN paging' = [paging EXCEPT !.pc = "idle", !.status = 500,
                                      !.storeOps = @ + 1]
        ELSE \E ord \in OrderBy(rows, orderByClause(sortBy(paging.rq))) :
               paging' = [paging EXCEPT !.pc = "count", !.storeOps = @ + 1,
                                        !.papers = OffsetFetch(ord, off, lim),
                                        !.matched = Cardinality(rows)]
  /\ look' = NoLook
  /\ UNCHANGED <<queryCache, store>>
  /\ RoutesOnly

\* const result = await request.query(searchQuery): the store runs the page
\* query on the papers it holds now, or refuses the OFFSET/FETCH values,
\* which the catch block answers with 500.
PagingPage ==
  /\ paging.pc = "page"
  /\ LET off == offset(paging.rq, 12)
         lim == limit(paging.rq, 12)
         rows == SearchResults(paging.db, paging.rq)
     IN IF StoreRefuses(off, lim)
        THEN paging' = [paging EXCEPT !.pc = "idle", !.status = 500,
                                      !.storeOps = @ + 1]
        ELSE \E ord \in OrderBy(rows, orderByClause(sortBy(paging.rq))) :
               paging' = [paging EXCEPT !.pc = "count", !.storeOps = @ + 1,
                                        !.papers = OffsetFetch(ord, off, lim),
                                        !.matched = Cardinality(rows)]
  /\ look' = NoLook
  /\ UNCHANGED <<queryCache, store>>
  /\ RoutesOnly

\* const countResult = await countRequest.query(countQuery), then the
\* response is built, cached and sent.
PagingCount ==
  /\ paging.pc = "count"
  /\ LET total == countQuery(paging.db, Parsed(paging.rq))
         response == SearchResponse(paging.papers, total, paging.rq)
     IN /\ queryCache' = setCachedQuery(queryCache, PagingKeyTable[paging.rq],
                                        response, now)
        /\ paging' = [paging EXCEPT
             !.pc = "idle", !.status = 200, !.total = total,
             !.pages = response.ver.pages, !.cacheOps = @ + 1,
             !.storeOps = @ + 1,
             !.prev = IF paging.writes = 0 /\ ~paging.prev.on
                      THEN [rq |-> paging.rq, papers |-> paging.papers, on |-> TRUE]
                      ELSE @]
  /\ look' = NoLook
  /\ store' = store
  /\ RoutesOnly

\* The catch block that stores the error response under the request's key.
PagingFail_cached ==
  /\ paging.pc \in {"page", "count"}
  /\ paging' = [paging EXCEPT !.pc = "idle", !.status = 500, !.papers = <<>>,
                              !.cacheOps = @ + 1]
  /\ queryCache' = setCachedQuery(queryCache, PagingKeyTable[paging.rq],
                                  [success |-> FALSE, ver |-> 500], now)
  /\ look' = NoLook
  /\ store' = store
  /\ RoutesOnly

\* await getPool() or a query rejects: catch (error) answers 500.
PagingFail ==
  /\ paging.pc \in {"page", "count"}
  /\ paging' = [paging EXCEPT !.pc = "idle", !.status = 500, !.papers = <<>>]
  /\ look' = NoLook
  /\ UNCHANGED <<queryCache, store>>
  /\ RoutesOnly

DetailKey(id) == CacheKeyOf([route |-> "detail", id |-> id])

\* GET /:id as a whole: a hit is answered from the cache; otherwise the
\* paper is read, 404 is answered when there is none and 500 when the store
\* fails (ok = FALSE); the successful response is cached.
PaperDetail(id, ok) ==
  /\ inst = "papers" /\ paging.pc = "idle" /\ paging.served < MaxRequests
  /\ LET cached == getCachedQuery(queryCache, DetailKey(id), now)
         b == [Begin("detail") EXCEPT !.cacheOps = 1]
         found == {p \in paging.db : p.Paper_ID = id}
     IN IF cached.result # Null
        THEN /\ paging' = [b EXCEPT !.status = 200, !.hit = TRUE]
             /\ queryCache' = cached.cache
        ELSE IF ~ok
        THEN /\ paging' = [b EXCEPT !.status = 500]
             /\ queryCache' = cached.cache
        ELSE IF found = {}
        THEN /\ paging' = [b EXCEPT !.status = 404, !.storeOps = 1]
             /\ queryCache' = cached.cache
        ELSE /\ paging' = [b EXCEPT !.status = 200, !.storeOps = 4]
             /\ queryCache' = setCachedQuery(cached.cache, DetailKey(id),
                                Response([paper |-> CHOOSE p \in found : TRUE]),
                                now)
  /\ look' = [called |-> TRUE, key |-> DetailKey(id),
              age |-> AgeOf(queryCache, DetailKey(id), now),
              result |-> getCachedQuery(queryCache, DetailKey(id), now).result,
              mustSee |-> 0]
  /\ store' = store
  /\ RoutesOnly

\* POST /:id/review by a researcher who has not reviewed the paper: the
\* rating is validated, the paper checked, the review inserted and the
\* paper's detail key deleted.
PaperReview(id, rating) ==
  /\ inst = "papers" /\ paging.writes < MaxWrites
  /\ rating \in 1..5
  /\ \E p \in paging.db :
       /\ p.Paper_ID = id
       /\ paging' = [paging EXCEPT
            !.db = (@ \ {p}) \cup {[p EXCEPT !.Ratings = Append(@, rating)]},
            !.writes = @ + 1]
  /\ queryCache' = MapDelete(queryCache, DetailKey(id))
  /\ look' = NoLook
  /\ store' = store
  /\ RoutesOnly

\* POST /:id/download: the paper is checked, the download inserted and the
\* paper's detail key deleted.
PaperDownload(id) ==
  /\ inst = "papers" /\ paging.writes < MaxWrites
  /\ \E p \in paging.db :
       /\ p.Paper_ID = id
       /\ paging' = [paging EXCEPT
            !.db = (@ \ {p}) \cup {[p EXCEPT !.Download_Count = @ + 1]},
            !.writes = @ + 1]
  /\ queryCache' = MapDelete(queryCache, DetailKey(id))
  /\ look' = NoLook
  /\ store' = store
  /\ RoutesOnly

Roles == {"Researcher", "Admin"}

\* POST /search as a whole: 400 for a missing or blank query; a user who is
\* not a researcher is answered without a record; otherwise the query is
\* inserted, the user's keys are invalidated and 201 is answered; 500 when
\* the store fails (ok = FALSE).
RecordSearch(actor, role, q, ok) ==
  /\ inst = "interactions" /\ paging.pc = "idle" /\ paging.served < MaxRequests
  /\ LET b == [Begin("recordSearch") EXCEPT !.rq = [NoPagingRequest EXCEPT !.q = q]]
     IN IF Blank(q)
        THEN /\ paging' = [b EXCEPT !.status = 400]
             /\ UNCHANGED <<store, queryCache>>
        ELSE IF role # "Researcher"
        THEN /\ paging' = [b EXCEPT !.status = 200]
             /\ UNCHANGED <<store, queryCache>>
        ELSE IF ~ok
        THEN /\ paging' = [b EXCEPT !.status = 500, !.storeOps = 1]
             /\ UNCHANGED <<store, queryCache>>
        ELSE /\ store.user[actor] < MaxWrites
             /\ paging' = [b EXCEPT !.status = 201, !.storeOps = 1, !.cacheOps = 1]
             /\ store' = [store EXCEPT !.user[actor] = @ + 1]
             /\ queryCache' = invalidateUserCache(queryCache, actor)
  /\ look' = NoLook
  /\ RoutesOnly

\* GET /downloads/user/:userId as a whole: 403 for another user's history
\* unless the caller is an admin; a hit is answered from the cache;
\* otherwise the page and the count are read and the response is cached;
\* 500 when the store refuses the OFFSET/FETCH values or fails (ok = FALSE).
DownloadsHistory(u, actor, role, rq, ok) ==
  /\ inst = "interactions" /\ paging.pc = "idle" /\ paging.served < MaxRequests
  /\ LET b == [Begin("downloads") EXCEPT !.rq = rq]
         key == DownloadsKeyTable[u, rq]
         cached == getCachedQuery(queryCache, key, now)
     IN IF actor # u /\ role # "Admin"
        THEN /\ paging' = [b EXCEPT !.status = 403]
             /\ queryCache' = queryCache
        ELSE IF cached.result # Null
        THEN /\ paging' = [b EXCEPT !.status = 200, !.hit = TRUE, !.cacheOps = 1]
             /\ queryCache' = cached.cache
        ELSE IF ~ok \/ StoreRefuses(offset(rq, 10), limit(rq, 10))
        THEN /\ paging' = [b EXCEPT !.status = 500, !.cacheOps = 1, !.storeOps = 1]
             /\ queryCache' = cached.cache
        ELSE /\ paging' = [b EXCEPT !.status = 200, !.cacheOps = 2, !.storeOps = 2]
             /\ queryCache' = setCachedQuery(cached.cache, key,
                                             Response(store.user[u]), now)
  /\ look' = IF actor # u /\ role # "Admin" THEN NoLook
             ELSE [called |-> TRUE, key |-> DownloadsKeyTable[u, rq],
                   age |-> AgeOf(queryCache, DownloadsKeyTable[u, rq], now),
                   result |-> getCachedQuery(queryCache, DownloadsKeyTable[u, rq],
                                             now).result,
                   mustSee |-> 0]
  /\ store' = store
  /\ RoutesOnly

NextRoutes ==
  \/ \E rq \in PagingRequests : PagingStart(rq)
  \/ PagingPage
  \/ PagingCount
  \/ PagingFail
  \/ \E id \in {0, 1, 2}, ok \in BOOLEAN : PaperDetail(id, ok)
  \/ \E id \in PagedIds : PaperReview(id, 5)
  \/ \E id \in PagedIds : PaperDownload(id)
  \/ \E actor \in Users, role \in Roles, q \in {NoQuery, Given(S_blank), Given(S_a)},
        ok \in BOOLEAN : RecordSearch(actor, role, q, ok)
  \/ \E u \in Users, actor \in Users, role \in Roles, rq \in DownloadsRequests,
        ok \in BOOLEAN : DownloadsHistory(u, actor, role, rq, ok)

SpecRoutes == Init /\ [][NextRoutes]_vars

(***************************************************************************)
(* Two requests of one route file and the cache keys their handlers        *)
(* build.                                                                  *)
(***************************************************************************)
KeyPair(a, b) ==
  /\ ~pair.on
  /\ pair' = [on |-> TRUE, a |-> a, b |-> b,
              ka |-> RouteKeyTable[a], kb |-> RouteKeyTable[b]]
  /\ UNCHANGED <<inst, queryCache, now, store, invDone, req, look, puts, watch,
                 P1, P2, hist, search, paging, reviews, scoped>>

NextPair ==
  \/ /\ inst = "papers"
     /\ \E a \in PapersKeyRequests, b \in PapersKeyRequests : KeyPair(a, b)
  \/ /\ inst = "interactions"
     /\ \E a \in InteractionsKeyRequests, b \in InteractionsKeyRequests :
          KeyPair(a, b)

SpecPair == Init /\ [][NextPair]_vars

(***************************************************************************)
(* Review submissions: POST /reviews of interactions.js and                *)
(* POST /:id/review of the papers routes.  Both validate the rating, check *)
(* the paper, look for a review of the researcher on the paper, and after  *)
(* the await update the review found or insert a new one.  Paper 1 is in   *)
(* the store, paper 2 is not.  The constraints of the Review table are not *)
(* part of the route files: a second row for a (paper, researcher) pair is *)
(* either accepted by the store or refused, which the catch block answers  *)
(* with 500.                                                               *)
(***************************************************************************)
ReviewsOnly ==
  UNCHANGED <<inst, now, store, invDone, req, look, puts, watch, P1, P2, hist,
              search, paging, pair, scoped>>

Existing(rows, p, u) == {r \in rows : r.Paper_ID = p /\ r.Researcher_ID = u}

\* The handler up to the await of the existingReview query: 400 for a
\* rating outside 1..5, 404 for a paper that is not in the store.
ReviewCheck(h, p, u, rating) ==
  /\ reviews.call[h].pc = "idle"
  /\ LET c == [NoCall EXCEPT !.paper = p, !.researcher = u, !.rating = rating]
         found == Existing(reviews.rows, p, u)
     IN reviews' = [reviews EXCEPT !.call[h] =
          IF rating < 1 \/ rating > 5 THEN [c EXCEPT !.pc = "done", !.status = 400]
          ELSE IF p # 1 THEN [c EXCEPT !.pc = "done", !.status = 404]
          ELSE [c EXCEPT !.pc = "checked",
                         !.existing = IF found = {} THEN 0
                                      ELSE (CHOOSE r \in found : TRUE).Review_ID]]
  /\ queryCache' = queryCache
  /\ ReviewsOnly

\* The handler's own invalidation after its write.
ReviewInvalidate(c) ==
  IF inst = "papers" THEN MapDelete(queryCache, DetailKey(c.paper))
  ELSE invalidateUserCache(queryCache, c.researcher)

\* if (existingReview.recordset.length > 0): UPDATE the review found, the
\* invalidation, 200.
ReviewUpdate(h) ==
  /\ reviews.call[h].pc = "checked" /\ reviews.call[h].existing # 0
  /\ LET c == reviews.call[h] IN
       /\ reviews' =
            [rows |-> {IF r.Review_ID = c.existing THEN [r EXCEPT !.Rating = c.rating]
                       ELSE r : r \in reviews.rows},
             issued |-> reviews.issued,
             call |-> [reviews.call EXCEPT ![h] = [c EXCEPT !.pc = "done", !.status = 200]]]
       /\ queryCache' = ReviewInvalidate(c)
  /\ ReviewsOnly

\* Otherwise INSERT INTO Review, the invalidation, 201; or the store refuses
\* a second row for the pair (accepts = FALSE) and the catch block answers
\* 500.
ReviewInsert(h, accepts) ==
  /\ reviews.call[h].pc = "checked" /\ reviews.call[h].existing = 0
  /\ LET c == reviews.call[h]
         found == Existing(reviews.rows, c.paper, c.researcher)
     IN IF found # {} /\ ~accepts
        THEN /\ reviews' = [reviews EXCEPT !.call[h] =
                              [c EXCEPT !.pc = "done", !.status = 500]]
             /\ queryCache' = queryCache
        ELSE /\ accepts
             /\ reviews' =
                  [rows |-> reviews.rows \cup
                              {[Review_ID |-> reviews.issued + 1,
                                Paper_ID |-> c.paper, Researcher_ID |-> c.researcher,
                                Rating |-> c.rating]},
                   issued |-> reviews.issued + 1,
                   call |-> [reviews.call EXCEPT ![h] =
                               [c EXCEPT !.pc = "done", !.status = 201]]]
             /\ queryCache' = ReviewInvalidate(c)
  /\ ReviewsOnly

\* A slot is free for the next submission.
ReviewNext(h) ==
  /\ reviews.call[h].pc = "done"
  /\ reviews.issued < MaxWrites + 1
  /\ reviews' = [reviews EXCEPT !.call[h] = NoCall]
  /\ queryCache' = queryCache
  /\ ReviewsOnly

NextReview ==
  \/ \E h \in Slots, p \in {1, 2}, u \in Users, rating \in {0, 3, 5} :
       ReviewCheck(h, p, u, rating)
  \/ \E h \in Slots : ReviewUpdate(h)
  \/ \E h \in Slots, accepts \in BOOLEAN : ReviewInsert(h, accepts)
  \/ \E h \in Slots : ReviewNext(h)

SpecReview == Init /\ [][NextReview]_vars

(***************************************************************************)
(* The write handlers with their error paths, over a cache that holds      *)
(* responses: the review submissions above, PUT /reviews/:id and           *)
(* DELETE /reviews/:id of interactions.js, POST /downloads of              *)
(* interactions.js and POST /:id/download of the papers routes.  Each      *)
(* handler runs its checks up to the await of its write; after the await   *)
(* it invalidates and answers, or the rejected write is answered by the    *)
(* catch block.  ok = FALSE is a store exception in one of the checks.     *)
(* A submission's pc tells the write it awaits: "checked" the review       *)
(* INSERT or UPDATE, "editing" the UPDATE of PUT, "owned" the DELETE,      *)
(* "found" the download INSERT.                                            *)
(***************************************************************************)
WritesOnly ==
  UNCHANGED <<inst, now, invDone, req, puts, watch, P1, P2, hist, search,
              paging, pair, scoped>>

ById(rows, id) == {r \in rows : r.Review_ID = id}

\* The checks that PUT /reviews/:id and DELETE /reviews/:id share: 404 when
\* no review has the id, 403 when it is another researcher's.
OwnerCheck(c, id, u, ok, pc) ==
  LET found == ById(reviews.rows, id) IN
    IF ~ok THEN [c EXCEPT !.pc = "done", !.status = 500]
    ELSE IF found = {} THEN [c EXCEPT !.pc = "done", !.status = 404]
    ELSE IF (CHOOSE r \in found : TRUE).Researcher_ID # u
    THEN [c EXCEPT !.pc = "done", !.status = 403]
    ELSE [c EXCEPT !.pc = pc]

\* PUT /reviews/:id up to the await of its UPDATE: 400 for a rating outside
\* 1..5, then the owner's checks.
PutCheck(h, id, u, rating, ok) ==
  /\ inst = "interactions" /\ reviews.call[h].pc = "idle"
  /\ LET c == [NoCall EXCEPT !.researcher = u, !.rating = rating, !.existing = id]
     IN reviews' = [reviews EXCEPT !.call[h] =
          IF rating < 1 \/ rating > 5 THEN [c EXCEPT !.pc = "done", !.status = 400]
          ELSE OwnerCheck(c, id, u, ok, "editing")]
  /\ UNCHANGED <<queryCache, store>>
  /\ look' = NoLook
  /\ WritesOnly

\* The UPDATE has returned: invalidateUserCache(req.user.userId), 200.
PutCommit(h) ==
  /\ reviews.call[h].pc = "editing"
  /\ LET c == reviews.call[h] IN
       /\ reviews' =
            [reviews EXCEPT
               !.rows = {IF r.Review_ID = c.existing THEN [r EXCEPT !.Rating = c.rating]
                         ELSE r : r \in @},
               !.call[h] = [c EXCEPT !.pc = "done", !.status = 200]]
       /\ queryCache' = invalidateUserCache(queryCache, c.researcher)
  /\ store' = store
  /\ look' = NoLook
  /\ WritesOnly

\* DELETE /reviews/:id up to the await of its DELETE.
DeleteCheck(h, id, u, ok) ==
  /\ inst = "interactions" /\ reviews.call[h].pc = "idle"
  /\ LET c == [NoCall EXCEPT !.researcher = u, !.existing = id]
     IN reviews' = [reviews EXCEPT !.call[h] = OwnerCheck(c, id, u, ok, "owned")]
  /\ UNCHANGED <<queryCache, store>>
  /\ look' = NoLook
  /\ WritesOnly

\* The DELETE has returned: invalidateUserCache(req.user.userId), 200.
DeleteCommit(h) ==
  /\ reviews.call[h].pc = "owned"
  /\ LET c == reviews.call[h] IN
       /\ reviews' =
            [reviews EXCEPT
               !.rows = @ \ ById(@, c.existing),
               !.call[h] = [c EXCEPT !.pc = "done", !.status = 200]]
       /\ queryCache' = invalidateUserCache(queryCache, c.researcher)
  /\ store' = store
  /\ look' = NoLook
  /\ WritesOnly

\* POST /downloads (interactions.js) and POST /:id/download (papers) up to
\* the await of the INSERT.  interactions.js answers 400 without a paperId
\* (p = 0) and 400 for a user who is not a researcher; both answer 404 for
\* a paper that is not in the store.
DownloadCheck(h, p, u, researcher, ok) ==
  /\ reviews.call[h].pc = "idle"
  /\ LET c == [NoCall EXCEPT !.paper = p, !.researcher = u]
     IN reviews' = [reviews EXCEPT !.call[h] =
          IF inst = "interactions" /\ p = 0 THEN [c EXCEPT !.pc = "done", !.status = 400]
          ELSE IF ~ok THEN [c EXCEPT !.pc = "done", !.status = 500]
          ELSE IF inst = "interactions" /\ ~researcher
          THEN [c EXCEPT !.pc = "done", !.status = 400]
          ELSE IF p # 1 THEN [c EXCEPT !.pc = "done", !.status = 404]
          ELSE [c EXCEPT !.pc = "found"]]
  /\ UNCHANGED <<queryCache, store>>
  /\ look' = NoLook
  /\ WritesOnly

\* The INSERT INTO Download has returned: the handler's invalidation, then
\* 201 (interactions.js) or 200 (papers).
DownloadCommit(h) ==
  /\ reviews.call[h].pc = "found"
  /\ LET c == reviews.call[h] IN
       /\ IF inst = "papers"
          THEN /\ store.paper[c.paper] < MaxWrites
               /\ store' = [store EXCEPT !.paper[c.paper] = @ + 1]
          ELSE /\ store.user[c.researcher] < MaxWrites
               /\ store' = [store EXCEPT !.user[c.researcher] = @ + 1]
       /\ reviews' = [reviews EXCEPT !.call[h] =
            [c EXCEPT !.pc = "done",
                      !.status = IF inst = "papers" THEN 200 ELSE 201]]
       /\ queryCache' = ReviewInvalidate(c)
  /\ look' = NoLook
  /\ WritesOnly

\* The store rejects the awaited write: the catch block answers 500 and
\* invalidates nothing.
WriteFail_invalidate(h) ==
  /\ reviews.call[h].pc \in {"checked", "editing", "owned", "found"}
  /\ reviews' = [reviews EXCEPT !.call[h].pc = "done", !.call[h].status = 500]
  /\ queryCache' = ReviewInvalidate(reviews.call[h])
  /\ store' = store
  /\ look' = NoLook
  /\ WritesOnly

WriteFail(h) ==
  /\ reviews.call[h].pc \in {"checked", "editing", "owned", "found"}
  /\ reviews' = [reviews EXCEPT !.call[h].pc = "done", !.call[h].status = 500]
  /\ UNCHANGED <<queryCache, store>>
  /\ look' = NoLook
  /\ WritesOnly

NextWrite ==
  \/ \E r \in CacheRequests : CachePut(r, 0) /\ NoHandlers /\ NoGhosts
  \/ \E h \in Slots, p \in {1, 2}, u \in Users, rating \in {0, 3} :
       ReviewCheck(h, p, u, rating)
  \/ \E h \in Slots : ReviewUpdate(h)
  \/ \E h \in Slots, accepts \in BOOLEAN : ReviewInsert(h, accepts)
  \/ \E h \in Slots : ReviewNext(h)
  \/ \E h \in Slots, id \in {1, 2}, u \in Users, rating \in {0, 3}, ok \in BOOLEAN :
       PutCheck(h, id, u, rating, ok)
  \/ \E h \in Slots : PutCommit(h)
  \/ \E h \in Slots, id \in {1, 2}, u \in Users, ok \in BOOLEAN :
       DeleteCheck(h, id, u, ok)
  \/ \E h \in Slots : DeleteCommit(h)
  \/ \E h \in Slots, p \in {0, 1, 2}, u \in Users, researcher \in BOOLEAN,
        ok \in BOOLEAN : DownloadCheck(h, p, u, researcher, ok)
  \/ \E h \in Slots : DownloadCommit(h)
  \/ \E h \in Slots : WriteFail(h)

SpecWrite == Init /\ [][NextWrite]_vars

(***************************************************************************)
(* The user-scoped read routes of interactions.js: GET                     *)
(* /searches/user/:userId, /downloads/user/:userId,                        *)
(* /downloads/user/:userId/stats and /reviews/user/:userId.  Each reads    *)
(* the :userId parameter with parseInt, answers 403 unless the caller is   *)
(* that user or an Admin, builds the key from the parsed id, looks it up,  *)
(* and on a miss reads the user's rows and caches the response.  The       *)
(* response names the user whose rows it holds.                            *)
(***************************************************************************)
ScopedRoutes == {"searches", "downloads", "downloadStats", "userReviews"}

\* The values of :userId that are requested: "1x" (which parseInt reads as
\* 1), "12" and "x" (NaN).
UserIdParams == {<<"1", "x">>, <<"1", "2">>, <<"x">>}

\* getCacheKey({ userId, ... }) of the route with the default page and
\* limit; JSON.stringify prints a NaN userId as null.
ScopedParams(route, userId) ==
  LET r == KeyRequest(route, userId.n, NoQuery, NoQuery, NoQuery, NoQuery, NoQuery)
  IN IF userId.nan
     THEN [RouteParams(r) EXCEPT ![1][2] = Float([kind |-> "nan", tenths |-> 0])]
     ELSE RouteParams(r)

ScopedKeyTable ==
  [route \in ScopedRoutes, t \in UserIdParams |->
     getCacheKey(ScopedParams(route, parseInt(Given(t))))]

\* The rows WHERE Researcher_ID = @userId of the route, as a response.
UserResponse(route, userId) ==
  Response([route |-> route,
            owner |-> IF userId.nan THEN 0 ELSE userId.n,
            rows |-> IF ~userId.nan /\ userId.n \in Users
                     THEN store.user[userId.n] ELSE 0])

ScopedOnly ==
  UNCHANGED <<inst, now, store, invDone, req, puts, watch, P1, P2, hist, search,
              paging, reviews, pair>>

\* A handler that looks the key up before it checks the caller.
UserRead_lookupFirst(route, t, actor, role, ok) ==
  /\ inst = "interactions"
  /\ LET userId == parseInt(Given(t))
         key == ScopedKeyTable[route, t]
         cached == getCachedQuery(queryCache, key, now)
         s == [route |-> route, userId |-> userId, actor |-> actor, role |-> role,
               status |-> 0, got |-> Null]
     IN /\ look' = [called |-> TRUE, key |-> key,
                    age |-> AgeOf(queryCache, key, now),
                    result |-> cached.result, mustSee |-> 0]
        /\ IF cached.result # Null
           THEN /\ scoped' = [s EXCEPT !.status = 200, !.got = cached.result]
                /\ queryCache' = cached.cache
           ELSE IF (userId.nan \/ actor # userId.n) /\ role # "Admin"
           THEN /\ scoped' = [s EXCEPT !.status = 403]
                /\ queryCache' = cached.cache
           ELSE IF ~ok
           THEN /\ scoped' = [s EXCEPT !.status = 500]
                /\ queryCache' = cached.cache
           ELSE /\ scoped' = [s EXCEPT !.status = 200,
                                       !.got = UserResponse(route, userId)]
                /\ queryCache' = setCachedQuery(cached.cache, key,
                                                UserResponse(route, userId), now)
  /\ ScopedOnly

\* The handler as a whole: req.user.userId !== userId && req.user.role !==
\* 'Admin' is answered 403 before the key is built; a hit is answered from
\* the cache; otherwise the rows are read and the response is cached, or
\* the store fails (ok = FALSE) and the catch block answers 500.
UserRead(route, t, actor, role, ok) ==
  /\ inst = "interactions"
  /\ LET userId == parseInt(Given(t))
         key == ScopedKeyTable[route, t]
         cached == getCachedQuery(queryCache, key, now)
         s == [route |-> route, userId |-> userId, actor |-> actor, role |-> role,
               status |-> 0, got |-> Null]
     IN IF (userId.nan \/ actor # userId.n) /\ role # "Admin"
        THEN /\ scoped' = [s EXCEPT !.status = 403]
             /\ queryCache' = queryCache
             /\ look' = NoLook
        ELSE /\ look' = [called |-> TRUE, key |-> key,
                         age |-> AgeOf(queryCache, key, now),
                         result |-> cached.result, mustSee |-> 0]
             /\ IF cached.result # Null
                THEN /\ scoped' = [s EXCEPT !.status = 200, !.got = cached.result]
                     /\ queryCache' = cached.cache
                ELSE IF ~ok
                THEN /\ scoped' = [s EXCEPT !.status = 500]
                     /\ queryCache' = cached.cache
                ELSE /\ scoped' = [s EXCEPT !.status = 200,
                                            !.got = UserResponse(route, userId)]
                     /\ queryCache' = setCachedQuery(cached.cache, key,
                                                     UserResponse(route, userId), now)
  /\ ScopedOnly

\* User 1 is a researcher, user 12 is a researcher or an Admin.
NextScoped ==
  \E route \in ScopedRoutes, t \in UserIdParams, actor \in Users, role \in Roles,
     ok \in BOOLEAN :
    /\ role = "Admin" => actor = 12
    /\ UserRead(route, t, actor, role, ok)

SpecScoped == Init /\ [][NextScoped]_vars

(***************************************************************************)
(* Properties of the cache functions.                                      *)
(***************************************************************************)

\* C1: getCachedQuery never returns an entry's data once its age
\* (now - timestamp) has reached CACHE_TTL, the instant age = CACHE_TTL
\* included: the call returns null.
C1_NoExpiredHit ==
  (look.called /\ look.age >= CACHE_TTL) => look.result = Null

\* C1 witness: a lookup of an entry whose age equals the TTL exactly.
C1_Witness ==
  look.called /\ look.age = CACHE_TTL /\ look.result = Null

\* C2: between handler steps the map never holds more entries than the
\* capacity.
C2_SizeBound == Len(queryCache) <= Capacity

\* C2 witness: the map is full, with entries stored at different times.
C2_Witness ==
  /\ Len(queryCache) = Capacity
  /\ \E i, j \in DOMAIN queryCache :
       queryCache[i].timestamp < queryCache[j].timestamp

\* The entries of m other than the one stored under k, in their order.
Without(m, k) == SelectSeq(m, LAMBDA e : e.key # k)

\* C9 as stated: a getCachedQuery call that returns null leaves the map
\* exactly as it was.
C9_MissNoEffect ==
  [][(look'.called /\ look'.result = Null) => queryCache' = queryCache]_vars

\* C9 amended: a getCachedQuery call that returns null removes at most the
\* entry stored under the requested key (the expired one); every other entry
\* keeps its data, its timestamp and its place in the eviction order, and a
\* miss on a key that is not stored changes nothing.
C9_MissOnlyDropsOwnKey ==
  [][(look'.called /\ look'.result = Null)
       => /\ queryCache' = Without(queryCache, look'.key)
          /\ (look'.age = -1 => queryCache' = queryCache)]_vars

\* C9 witness: a miss on a stored but expired entry while another entry is
\* held.
C9_Witness ==
  /\ look.called /\ look.result = Null /\ look.age >= CACHE_TTL
  /\ Len(queryCache) >= 1

\* What getCachedQuery(key) would return if called in the current state.
Reads(key) == getCachedQuery(queryCache, key, now).result

\* C3: after setCachedQuery(k, v) at time t, as long as k has not been
\* invalidated and fewer than `capacity` puts of other, new keys have
\* happened, getCachedQuery(k) returns v at every time before t + CACHE_TTL
\* (also when k was already in the map when it was put), and null at every
\* time from t + CACHE_TTL on.
C3_PutThenGet ==
  watch.on =>
    /\ (~watch.inval /\ watch.others < Capacity /\ now < watch.t + CACHE_TTL)
         => Reads(WatchedKey) = watch.data
    /\ now >= watch.t + CACHE_TTL => Reads(WatchedKey) = Null

\* What does hold of the code: the same, for a put of a key that was not in
\* the map when it was put.
C3_FreshPutThenGet ==
  (watch.on /\ watch.fresh) =>
    /\ (~watch.inval /\ watch.others < Capacity /\ now < watch.t + CACHE_TTL)
         => Reads(WatchedKey) = watch.data
    /\ now >= watch.t + CACHE_TTL => Reads(WatchedKey) = Null

\* C4: from an empty cache and within the TTL, after capacity + 1 distinct
\* keys have been put the first-inserted key is unreachable and every other
\* key is returned with the value it was put with.
C4_FirstOnlyEvicted ==
  (Len(puts) = Capacity + 1 /\ now - puts[1].t < CACHE_TTL)
    => /\ Reads(puts[1].key) = Null
       /\ \A i \in 2..Len(puts) : Reads(puts[i].key) = puts[i].data

\* C4 witness: capacity + 1 distinct keys have been put, all within the TTL.
C4_Witness ==
  /\ Len(puts) = Capacity + 1
  /\ now - puts[1].t < CACHE_TTL
  /\ Len(queryCache) = Capacity

\* The cache keys of user u's entries: the keys the user-scoped read routes
\* build for userId u.
UserKeys(u) ==
  {CacheKeyOf(r) : r \in {x \in ReadRequests : UserScoped(x.route) /\ x.id = u}}

\* C5: invalidateUserCache(u) removes all and only the entries of user u;
\* the entries of every other user (12 for u = 1 included) and the non-user
\* entries stay as they were.
C5_InvalidateExactlyUser ==
  [][\A h \in Slots :
       (inst = "interactions" /\ req[h].pc = "committed" /\ req'[h].pc = "done")
         => queryCache' =
              SelectSeq(queryCache, LAMBDA e : e.key \notin UserKeys(req[h].actor))]_vars

\* C6: once a write handler of the papers routes has committed its write to
\* paper p and deleted p's detail key, every GET /:id for p that starts
\* afterwards answers with a response computed from a store state that
\* includes the write.  (A GET that misses reads the store after it started;
\* the response of a hit is the cached one.)
C6_NoStaleDetailAfterInvalidation ==
  (look.called /\ look.result # Null) => look.result.ver >= look.mustSee

\* C7: when a review write on paper p in the interactions routes has
\* completed, a GET /reviews/paper/p that follows is not answered from an
\* entry that was stored before the write committed.
C7_ReviewWriteInvalidatesPaperReviews ==
  [][\A h \in Slots :
       (inst = "interactions" /\ req[h].pc = "committed" /\ req'[h].pc = "done")
         => LET key == CacheKeyOf([route |-> "paperReviews", id |-> req[h].id]) IN
            ~ /\ MapHas(queryCache', key)
              /\ MapGet(queryCache', key).timestamp < req[h].at
              /\ getCachedQuery(queryCache', key, now).result # Null]_vars

\* Same set of name/value pairs, whatever the order.
SameProps(a, b) == {a[i] : i \in DOMAIN a} = {b[i] : i \in DOMAIN b}

\* C8: parameter objects that hold the same field/value pairs get the same
\* cache key, whatever the order in which their properties were inserted.
C8_KeyOrderIndependent ==
  SameProps(P1, P2) => getCacheKey(P1) = getCacheKey(P2)

\* C10: whenever setCachedQuery evicts, the evicted entry has the smallest
\* timestamp of all the entries held, also after a second put of a key that
\* was already present.
C10_EvictsOldestTimestamp ==
  [][\A h \in Slots :
       (req[h].pc = "fetched" /\ req'[h].pc = "done")
         => \A i \in DOMAIN queryCache :
              ~MapHas(queryCache', queryCache[i].key)
                => \A j \in DOMAIN queryCache' :
                     queryCache[i].timestamp <= queryCache'[j].timestamp]_vars

\* The number of entries of m that are not expired at the current time.
LiveCount(m) == Cardinality({i \in DOMAIN m : now - m[i].timestamp < CACHE_TTL})

\* C11: a setCachedQuery call never removes a non-expired entry while fewer
\* than `capacity` non-expired entries are stored: entries that are expired
\* but still in the map do not cause a live entry to be evicted.
C11_EvictsOnlyAtLiveCapacity ==
  [][\A h \in Slots :
       (req[h].pc = "fetched" /\ req'[h].pc = "done")
         => \A i \in DOMAIN queryCache :
              (/\ ~MapHas(queryCache', queryCache[i].key)
               /\ now - queryCache[i].timestamp < CACHE_TTL)
                => LiveCount(queryCache) >= Capacity]_vars

\* C12: a getCachedQuery hit leaves the map as it was (timestamps and
\* insertion order included), and the first entry of a full map is the one
\* the next put of a new key evicts even when it has just been read.
C12_HitKeepsEvictionOrder ==
  [][/\ (look'.called /\ look'.result # Null) => queryCache' = queryCache
     /\ (/\ look.called /\ look.result # Null
         /\ Len(queryCache) = Capacity
         /\ look.key = queryCache[1].key
         /\ \E j \in DOMAIN queryCache' : ~MapHas(queryCache, queryCache'[j].key))
          => ~MapHas(queryCache', look.key)]_vars

\* C12 witness: the first entry of a full map has just been read with a hit.
C12_Witness ==
  /\ look.called /\ look.result # Null
  /\ Len(queryCache) = Capacity /\ Capacity > 1
  /\ look.key = queryCache[1].key

\* C13: the exact-key invalidation of a paper write handler removes the
\* detail entry of that paper and nothing else: every other entry keeps its
\* data, its timestamp and its place in the eviction order, and the map is
\* unchanged when the key is not stored.
C13_ExactInvalidationFrame ==
  [][\A h \in Slots :
       (inst = "papers" /\ req[h].pc = "committed" /\ req'[h].pc = "done")
         => LET key == CacheKeyOf([route |-> "detail", id |-> req[h].id]) IN
            /\ ~MapHas(queryCache', key)
            /\ \A i \in DOMAIN queryCache :
                 queryCache[i].key # key
                   => \E j \in DOMAIN queryCache' : queryCache'[j] = queryCache[i]
            /\ \A i, j \in DOMAIN queryCache' :
                 i < j => \E a, b \in DOMAIN queryCache :
                            a < b /\ queryCache[a] = queryCache'[i]
                                  /\ queryCache[b] = queryCache'[j]
            /\ Len(queryCache') <= Len(queryCache)
            /\ (~MapHas(queryCache, key) => queryCache' = queryCache)]_vars

\* C13 witness: the invalidation for paper 1 has run and removed its detail
\* entry while the entry of paper 2, stored before, is still held.
C13_Witness ==
  /\ inst = "papers"
  /\ invDone[1] > 0
  /\ ~MapHas(queryCache, CacheKeyOf([route |-> "detail", id |-> 1]))
  /\ MapHas(queryCache, CacheKeyOf([route |-> "detail", id |-> 2]))
  /\ \E h \in Slots : req[h].pc = "fetched" /\ req[h].id = 1

\* C14: every cache hit serves a response whose store reads were performed
\* less than CACHE_TTL before the hit.
C14_HitDataYoungerThanTTL ==
  (look.called /\ look.result # Null)
    => now - hist.last[look.key].readAt < CACHE_TTL

\* C15: when a handler stores a key that another handler, which missed
\* concurrently, has stored in the meantime, the map afterwards holds exactly
\* one entry for the key, with the data and the time of this second put, and
\* the number of entries has not grown.
C15_SecondPutWins ==
  [][\A h \in Slots :
       (req[h].pc = "fetched" /\ req'[h].pc = "done" /\ MapHas(queryCache, req[h].key))
         => /\ Cardinality({i \in DOMAIN queryCache' :
                              queryCache'[i].key = req[h].key}) = 1
            /\ MapGet(queryCache', req[h].key).data = Response(req[h].snap)
            /\ MapGet(queryCache', req[h].key).timestamp = now
            /\ Len(queryCache') = Len(queryCache)]_vars

\* C15 witness: the entry of the watched key was stored by the second of two
\* handlers that missed concurrently (the key was in the map again when the
\* handler stored it), some time after the clock's start.
C15_Witness ==
  /\ watch.on /\ ~watch.fresh /\ watch.t > 0
  /\ MapHas(queryCache, WatchedKey)
  /\ MapGet(queryCache, WatchedKey).data = watch.data
  /\ MapGet(queryCache, WatchedKey).timestamp = watch.t

\* C16: a value returned by getCachedQuery(k) is the complete response of the
\* latest setCachedQuery(k, .): the data of that call together with the
\* timestamp of that call, never the data or the timestamp of another put.
C16_HitReturnsWhatWasPut ==
  (look.called /\ look.result # Null)
    => /\ hist.last[look.key].t >= 0
       /\ look.result = hist.last[look.key].data
       /\ look.age = now - hist.last[look.key].t

\* C16 witness: a hit on a key while the map also holds an entry of another
\* key with other data and another timestamp.
C16_Witness ==
  /\ look.called /\ look.result # Null
  /\ \E i \in DOMAIN queryCache :
       /\ queryCache[i].key # look.key
       /\ queryCache[i].data # look.result
       /\ queryCache[i].timestamp # now - look.age

(***************************************************************************)
(* Properties of the search.  Contains is "the text is found in", without  *)
(* regard to case.                                                         *)
(***************************************************************************)
Contains(s, text) == Includes(FoldStr(s), FoldStr(text))

PaperOf(id) == CHOOSE p \in search.db : p.Paper_ID = id

ResultIds == {r.Paper_ID : r \in search.papers}

HasWildcard(s) == \E i \in DOMAIN s : s[i] \in {"%", "_", "["}

\* The score as the claim C17 states it.
ClaimedScore(p, query) ==
  LET text == Trim(query)
      terms == searchTerms(query)
  IN (IF Contains(p.Title, text) THEN 1000 ELSE 0)
     + 100 * Cardinality({i \in DOMAIN terms : Contains(p.Title, terms[i])})
     + (IF \E k \in p.Keywords : Contains(k, text) THEN 500 ELSE 0)
     + (IF \E a \in p.Authors :
             Contains(a.First_Name, text) \/ Contains(a.Last_Name, text)
        THEN 300 ELSE 0)
     + (IF Contains(p.Abstract, text) THEN 200 ELSE 0)
     + (IF Contains(p.Field_Name, text) THEN 150 ELSE 0)

\* C17: the relevance score of a returned record is 1000 if the full trimmed
\* query is found in the title, plus 100 for each term found in the title,
\* plus 500 / 300 / 200 / 150 for the full query found in the keywords, an
\* author's first or last name, the abstract, the field name; nothing else
\* contributes.
C17_ScoreIsSumOfSignals ==
  search.status = 200
    => \A r \in search.papers :
         r.Relevance_Score = ClaimedScore(PaperOf(r.Paper_ID), search.rq.q.v)

\* What does hold of the code: the same, for a query without a LIKE wildcard.
C17_ScoreWithoutWildcards ==
  (search.status = 200 /\ ~HasWildcard(search.rq.q.v))
    => \A r \in search.papers :
         r.Relevance_Score = ClaimedScore(PaperOf(r.Paper_ID), search.rq.q.v)

\* The store of the scenario of C18, asked for "neural networks" with no
\* filter.
C18_Scenario ==
  /\ search.status = 200
  /\ search.rq = [NoRequest EXCEPT !.q = Given(S_neural_networks)]
  /\ Cardinality(search.db) = 2
  /\ \E p \in search.db :
       p = PaperRow(1, TitleNeural, p.Field_ID, p.Publication_Date, p.Ratings)
  /\ \E p \in search.db :
       p = PaperRow(2, AbstractNeural, p.Field_ID, p.Publication_Date, p.Ratings)

\* C18 as stated: the paper titled "Neural Networks" scores 1200 and the
\* paper with "neural" only in its abstract is in the results with score 200.
C18_AbstractOnlyIncluded ==
  C18_Scenario
    => search.papers = {[Paper_ID |-> 1, Relevance_Score |-> 1200],
                        [Paper_ID |-> 2, Relevance_Score |-> 200]}

\* C18 amended: the paper titled "Neural Networks" scores 1200 and is the
\* only result; the paper with "neural" only in its abstract holds the full
\* query in none of its fields, so it is not in the results and not counted.
C18_AbstractOnlyExcluded ==
  C18_Scenario
    => /\ search.papers = {[Paper_ID |-> 1, Relevance_Score |-> 1200]}
       /\ search.total = 1

\* C18 witness: the scenario has been answered.
C18_Witness == C18_Scenario /\ 1 \in ResultIds

\* The matching predicate and the filters as the claim C19 states them.
ClaimedMatch(p, query) ==
  LET text == Trim(query) IN
    \/ Contains(p.Title, text)
    \/ Contains(p.Abstract, text)
    \/ Contains(p.Field_Name, text)
    \/ Contains(p.Description, text)
    \/ \E k \in p.Keywords : Contains(k, text)
    \/ \E a \in p.Authors :
         Contains(a.First_Name, text) \/ Contains(a.Last_Name, text)

\* average rating >= m (m in tenths); the average of no review is 0.
ClaimedAverageAtLeast(p, m) ==
  IF Len(p.Ratings) = 0 THEN m <= 0
  ELSE SumSeq(p.Ratings) * 10 >= m * Len(p.Ratings)

ClaimedFilters(p, rq) ==
  /\ rq.fieldId.given => p.Field_ID = rq.fieldId.v
  /\ rq.dateFrom.given => rq.dateFrom.v <= p.Publication_Date
  /\ rq.dateTo.given => p.Publication_Date <= rq.dateTo.v
  /\ rq.minRating.given => ClaimedAverageAtLeast(p, rq.minRating.v)

\* C19: a record is in the result set if and only if the full trimmed query
\* is found in one of its fields and it passes every filter that is given.
C19_ResultSetIsMatchAndFilters ==
  search.status = 200
    => ResultIds =
         {p.Paper_ID : p \in {x \in search.db :
            ClaimedMatch(x, search.rq.q.v) /\ ClaimedFilters(x, search.rq)}}

\* What does hold of the code: the same, for a query without a LIKE wildcard.
C19_ResultSetWithoutWildcards ==
  (search.status = 200 /\ ~HasWildcard(search.rq.q.v))
    => ResultIds =
         {p.Paper_ID : p \in {x \in search.db :
            ClaimedMatch(x, search.rq.q.v) /\ ClaimedFilters(x, search.rq)}}

\* C20: with a floor m > 0 a record that passes the other conditions is
\* returned exactly when its average rating is >= m, and the total counts
\* exactly those records: a floor of 4.0 keeps an average of 4.0 and drops an
\* average of 3.9, and a record without reviews is dropped.
C20_RatingFloor ==
  (search.status = 200 /\ minRating(search.rq) > 0)
    => /\ \A p \in search.db :
            whereConditions(p, search.rq)
              => /\ p.Paper_ID \in ResultIds
                      <=> ClaimedAverageAtLeast(p, minRating(search.rq))
                 /\ p.Ratings = <<>> => p.Paper_ID \notin ResultIds
                 /\ (minRating(search.rq) = 40 /\ p.Ratings = <<4>>)
                      => p.Paper_ID \in ResultIds
                 /\ (minRating(search.rq) = 40 /\ p.Ratings \in RatingLists \ {<<>>, <<4>>})
                      => p.Paper_ID \notin ResultIds
       /\ search.total = Cardinality(ResultIds)
       /\ \A id \in ResultIds : whereConditions(PaperOf(id), search.rq)

\* C20 witness: with a floor of 4.0, the paper rated 4.0 on average is
\* returned and counted, the paper rated 3.9 on average, which would pass
\* without the floor, is not.
C20_Witness ==
  /\ search.status = 200 /\ minRating(search.rq) = 40
  /\ search.total = 1
  /\ \E p \in search.db : p.Ratings = <<4>> /\ p.Paper_ID \in ResultIds
  /\ \E p \in search.db :
       /\ Len(p.Ratings) > 1
       /\ p.Paper_ID \notin ResultIds

(***************************************************************************)
(* Properties of the ordering and the paging of GET /search/query and of   *)
(* the handlers' error paths.                                              *)
(***************************************************************************)
Answered == paging.route = "search" /\ paging.pc = "idle" /\ paging.status = 200

\* The sort keys the documentation gives for the sortBy value of a request.
ClaimedKeys(rq) ==
  IF rq.sortBy = Given(S_date) THEN <<"Publication_Date", "Relevance_Score">>
  ELSE IF rq.sortBy = Given(S_rating)
  THEN <<"Average_Rating", "Relevance_Score", "Publication_Date">>
  ELSE IF rq.sortBy = Given(S_downloads)
  THEN <<"Download_Count", "Relevance_Score", "Publication_Date">>
  ELSE <<"Relevance_Score", "Average_Rating", "Download_Count", "Publication_Date">>

\* C21: the rows of a search response are in the order of the sort mode:
\* relevance (also for a missing or unknown sortBy) by score, average
\* rating, downloads, date; date by date, score; rating by average rating,
\* score, date; downloads by downloads, score, date; all descending.  No
\* row comes after a row that the keys of the mode put behind it.
C21_OrderFollowsSortMode ==
  Answered =>
    \A i, j \in DOMAIN paging.papers :
      i < j => ~Before(paging.papers[j], paging.papers[i], ClaimedKeys(paging.rq))

\* Sorted by downloads, a paper with 50 downloads and the lower score is
\* returned before a paper with 10 downloads.
C21_Witness ==
  /\ Answered /\ ~paging.hit
  /\ paging.rq.sortBy = Given(S_downloads)
  /\ \E i, j \in DOMAIN paging.papers :
       /\ i < j
       /\ paging.papers[i].Download_Count = 50
       /\ paging.papers[j].Download_Count = 10
       /\ paging.papers[i].Relevance_Score < paging.papers[j].Relevance_Score

Ids(rows) == {rows[i].Paper_ID : i \in DOMAIN rows}

\* C22: ranking is deterministic, rows that are equal in all the sort keys
\* being ordered by the record id, so that the pages of one query over
\* unchanged data hold every filtered record exactly once: two different
\* pages of the same query, computed while no write was committed, have
\* no record in common.
C22_PagesShareNoRecord ==
  /\ Answered /\ ~paging.hit /\ paging.writes = 0
  /\ paging.prev.on /\ SameQuery(paging.prev.rq, paging.rq)
  /\ page(paging.prev.rq) # page(paging.rq)
  => Ids(paging.prev.papers) \cap Ids(paging.papers) = {}

\* The rows from position (pg - 1) * lim up to, not including, pg * lim of
\* the sequence s, positions counted from 0.
Slice(s, pg, lim) ==
  LET from == (pg - 1) * lim
      n == IF Len(s) - from < 0 THEN 0
           ELSE IF Len(s) - from < lim THEN Len(s) - from ELSE lim
  IN [i \in 1..n |-> s[from + i]]

\* C23: for page >= 1 and limit >= 1 over unchanged data the rows of a
\* response are the slice [(page-1)*limit, page*limit) of the filtered rows
\* in an order of the sort mode, total is the number of filtered rows and
\* pages is the least number of pages of limit rows that hold them all.
C23_PageIsSliceOfOrderedSet ==
  LET pg == page(paging.rq)
      lim == limit(paging.rq, 12)
      rows == SearchResults(paging.db, paging.rq)
  IN Answered /\ paging.writes = 0 /\ pg >= 1 /\ lim >= 1
     => /\ \E s \in Arrangements(rows) :
             /\ \A i, j \in DOMAIN s :
                  i < j => ~Before(s[j], s[i], ClaimedKeys(paging.rq))
             /\ paging.papers = Slice(s, pg, lim)
        /\ paging.total = Cardinality(rows)
        /\ paging.pages * lim >= paging.total
        /\ (paging.pages - 1) * lim < paging.total

\* The second page of two rows over three matching papers holds one row,
\* with total 3 and pages 2.
C23_Witness ==
  /\ Answered /\ ~paging.hit /\ paging.writes = 0
  /\ page(paging.rq) = 2 /\ limit(paging.rq, 12) = 2
  /\ Len(paging.papers) = 1 /\ paging.total = 3 /\ paging.pages = 2

\* C24: a page below 1 or a limit below 1 is rejected or replaced by the
\* default before paging is computed: whenever a handler has handed its
\* offset and limit to the store, the offset is not negative and the limit
\* is positive.
C24_StoreGetsValidPaging ==
  /\ paging.route = "search" /\ paging.storeOps >= 1
     => offset(paging.rq, 12) >= 0 /\ limit(paging.rq, 12) >= 1
  /\ paging.route = "downloads" /\ paging.storeOps >= 1
     => offset(paging.rq, 10) >= 0 /\ limit(paging.rq, 10) >= 1

\* C25: a search text that is missing, empty or only blanks is answered
\* with 400 and never with a result: the step in which GET /search/query
\* or POST /search is called with such a text answers 400, calls no cache
\* function, queries and changes no store, and leaves the cache as it was.
C25_BlankQueryRejectedUntouched ==
  [][(/\ paging'.served = paging.served + 1
      /\ paging'.route \in {"search", "recordSearch"}
      /\ Blank(paging'.rq.q))
     => /\ paging'.status = 400 /\ paging'.pc = "idle"
        /\ paging'.cacheOps = 0 /\ paging'.storeOps = 0
        /\ ~look'.called
        /\ paging'.db = paging.db
        /\ UNCHANGED <<queryCache, store>>]_vars

\* GET /search/query?q=%20 was answered with 400 while the cache held an
\* entry.
C25_Witness ==
  /\ paging.route = "search" /\ paging.rq.q = Given(S_blank)
  /\ paging.status = 400 /\ queryCache # <<>>

\* The parameter set of a request: its family and the values its handler
\* works with after parsing and defaulting.
ParameterSet(r) ==
  [family |-> r.family, id |-> r.id, q |-> r.q, page |-> page(r),
   limit |-> OrElse(parseInt(r.limit), 0),
   minRating |-> minRatingOf(r.minRating),
   sortBy |-> IF r.sortBy.given THEN r.sortBy.v
              ELSE IF r.family = "paperReviews" THEN S_date ELSE S_relevance]

\* C26: two requests of one route file whose parameter sets differ, in the
\* family or in the value of any parameter, never get the same cache key.
C26_DifferentParametersDifferentKeys ==
  pair.on /\ ParameterSet(pair.a) # ParameterSet(pair.b) => pair.ka # pair.kb

\* The keys of two requests with different parameter sets differ when the
\* minRating of both is a finite number.
C26_FiniteParametersDifferentKeys ==
  /\ pair.on /\ ParameterSet(pair.a) # ParameterSet(pair.b)
  /\ minRatingOf(pair.a.minRating).kind = "num"
  /\ minRatingOf(pair.b.minRating).kind = "num"
  => pair.ka # pair.kb

\* C27: when a write handler of the interaction routes has invalidated and
\* answered for its user u, the cache holds no entry of u, so that the next
\* read for u misses and reads the store.
C27_WriterKeysGoneAfterWrite ==
  [][\A h \in Slots :
       (inst = "interactions" /\ req[h].pc = "committed" /\ req'[h].pc = "done")
         => \A k \in UserKeys(req[h].actor) : ~MapHas(queryCache', k)]_vars

\* After a write of user 12 has been answered, a read for user 12 misses
\* while the entry of user 1 is still held.
C27_Witness ==
  /\ inst = "interactions"
  /\ store.user[12] > 0
  /\ \A h \in Slots : req[h].pc # "committed"
  /\ look.called /\ look.key \in UserKeys(12) /\ look.result = Null
  /\ \E k \in UserKeys(1) : MapHas(queryCache, k)

\* C28: the rows and the total of one response come from one state of the
\* store: the total of a computed search response is the number of rows
\* that passed the filters when its page query ran.
C28_TotalFromStateOfPage ==
  Answered /\ ~paging.hit => paging.total = paging.matched

\* C29: the store holds one review at most per (paper, researcher) pair
\* after any interleaving of review submissions, and two submissions of one
\* researcher for one paper that were both in progress at a time end as
\* one insert (201) and one update (200).
C29_OneReviewPerPair ==
  /\ \A r1, r2 \in reviews.rows :
       r1.Paper_ID = r2.Paper_ID /\ r1.Researcher_ID = r2.Researcher_ID => r1 = r2
  /\ \A g, h \in Slots :
       (/\ g # h
        /\ reviews.call[g].pc = "done" /\ reviews.call[h].pc = "done"
        /\ reviews.call[g].paper = reviews.call[h].paper
        /\ reviews.call[g].researcher = reviews.call[h].researcher
        /\ reviews.call[g].status = 201)
       => reviews.call[h].status \in {200, 400, 404}

\* C30: only responses that were computed successfully are stored in a
\* cache: every entry of the map holds a response with success = true, and
\* so does every response getCachedQuery returns on a hit, whichever
\* handlers have ended in 400, 403, 404 or 500 before.
C30_OnlySuccessCached ==
  /\ \A i \in DOMAIN queryCache : queryCache[i].data.success
  /\ look.called /\ look.result # Null => look.result.success

\* A search was answered with 500 after an earlier page of the same search
\* had been cached: the cache holds that page and nothing under the key of
\* the failed request.
C30_Witness ==
  /\ paging.route = "search" /\ paging.status = 500 /\ paging.pc = "idle"
  /\ queryCache # <<>>
  /\ ~MapHas(queryCache, PagingKeyTable[paging.rq])

(***************************************************************************)
(* Properties of the write handlers' error paths.                          *)
(***************************************************************************)
\* The handler in slot h answers in this step.
Answers(h, statuses) ==
  /\ reviews.call[h].pc # "done"
  /\ reviews'.call[h].pc = "done"
  /\ reviews'.call[h].status \in statuses

\* The write the handler in slot h awaited is in the store after the step.
WriteApplied(h) ==
  LET c == reviews.call[h] IN
    CASE c.pc = "found" -> store' # store
      [] c.pc = "owned" -> ById(reviews'.rows, c.existing) = {}
      [] c.pc = "checked" /\ c.existing = 0 ->
           Existing(reviews'.rows, c.paper, c.researcher) # {}
      [] OTHER -> \A r \in ById(reviews'.rows, c.existing) : r.Rating = c.rating

\* C31: a write request that fails leaves the cache unchanged: a step in
\* which a write handler answers 400, 403, 404 or 500 changes neither the
\* cache nor the store, and a write handler's step changes the cache only
\* when the handler answers 200 or 201 with its write applied to the store.
C31_FailedWriteKeepsCache ==
  [][/\ \A h \in Slots :
          Answers(h, {400, 403, 404, 500}) =>
            /\ queryCache' = queryCache
            /\ reviews'.rows = reviews.rows
            /\ store' = store
     /\ (queryCache' # queryCache /\ reviews' # reviews) =>
          \E h \in Slots : Answers(h, {200, 201}) /\ WriteApplied(h)]_vars

\* A DELETE of another researcher's review was answered 403 and a write of
\* researcher 1 was answered 500 by the catch block, and the cache still
\* holds a response of each of the two researchers.
C31_Witness ==
  /\ inst = "interactions"
  /\ reviews.call["A"].pc = "done" /\ reviews.call["A"].status = 403
  /\ reviews.call["B"].pc = "done" /\ reviews.call["B"].status = 500
  /\ reviews.call["B"].researcher = 1 /\ reviews.call["B"].existing # 0
  /\ \A u \in Users : \E i \in DOMAIN queryCache : UserKeyMatch(queryCache[i].key, u)

(***************************************************************************)
(* Properties of the user-scoped read routes.                              *)
(***************************************************************************)
\* The caller of the request served last is neither the user asked for nor
\* an Admin.
Stranger ==
  /\ scoped.role # "Admin"
  /\ scoped.userId.nan \/ scoped.actor # scoped.userId.n

\* C32: the cache never leaks one user's cached data to another principal:
\* a caller who is neither the user asked for nor an Admin is answered 403
\* without a cache lookup and receives no response, and a response that a
\* caller who is no Admin receives holds the caller's own rows.
C32_NoCrossUserResponse ==
  /\ scoped.route # "none" /\ Stranger =>
       scoped.status = 403 /\ scoped.got = Null /\ ~look.called
  /\ scoped.got # Null /\ scoped.role # "Admin" =>
       scoped.got.ver.owner = scoped.actor

\* User 1, no Admin, asked for user 12's rows and was answered 403 while
\* the cache held the response to that very request, put there for an Admin.
C32_Witness ==
  /\ scoped.actor = 1 /\ scoped.role = "Researcher"
  /\ scoped.userId = [nan |-> FALSE, n |-> 12]
  /\ scoped.status = 403
  /\ MapHas(queryCache, ScopedKeyTable[scoped.route, <<"1", "2">>])
  /\ getCachedQuery(queryCache, ScopedKeyTable[scoped.route, <<"1", "2">>], now).result
       # Null

(***************************************************************************)
(* Properties of a second setCachedQuery on a stored key.                  *)
(***************************************************************************)
\* The step is setCachedQuery(key, data) on a key that is stored.
PutOnStored(key, data) ==
  /\ MapHas(queryCache, key)
  /\ look' = NoLook
  /\ queryCache' = setCachedQuery(queryCache, key, data, now)

\* C33: setCachedQuery on a key that is already stored replaces the entry's
\* data and timestamp in place: the number of entries does not change,
\* nothing is evicted, every key keeps its position in the eviction order,
\* and the other entries are untouched.
C33_ReplaceInPlace ==
  [][\A r \in CacheRequests, v \in Versions :
       PutOnStored(CacheKeyOf(r), Response(v)) =>
         /\ Len(queryCache') = Len(queryCache)
         /\ \A i \in DOMAIN queryCache :
              /\ queryCache'[i].key = queryCache[i].key
              /\ IF queryCache[i].key = CacheKeyOf(r)
                 THEN /\ queryCache'[i].data = Response(v)
                      /\ queryCache'[i].timestamp = now
                 ELSE queryCache'[i] = queryCache[i]]_vars

\* The cache is full and its oldest key holds a newer timestamp than the
\* key behind it: the oldest key was stored again and kept its position.
C33_Witness ==
  /\ Len(queryCache) = Capacity
  /\ queryCache[1].timestamp > queryCache[Len(queryCache)].timestamp

====
